---- MODULE Spec2Model ----
(***************************************************************************)
(* Garcon: the server lifecycle orchestrator (ServerService), the Docker   *)
(* execution backend (DockerManagerService) and the maintenance routine.   *)
(*                                                                         *)
(* The backend is a single Node.js process.  Every async method runs      *)
(* synchronously up to an `await` of an I/O call, is suspended there, and  *)
(* resumes in a later turn of the event loop.  A request is therefore      *)
(* modelled as a task whose `pc` names the I/O call it awaits:             *)
(*   - a handler segment (entry or resumption) reads and writes only the   *)
(*     in-memory state and hands messages to the push channel;             *)
(*   - the Docker daemon or the file system processes the call later, in   *)
(*     a step of its own, and leaves the response in the task (`resp`);    *)
(*   - the task resumes with that response in a third step.                *)
(* A call that fails changes nothing in the daemon or on disk, so a        *)
(* failure is taken at the resumption: a task whose call has left no       *)
(* response (`resp` = "none") resumes with the error the call threw.       *)
(* Awaits of in-memory lookups (templateService.getTemplate, listServers)  *)
(* perform no I/O and resume within the same turn.                         *)
(***************************************************************************)
EXTENDS Integers, Sequences, FiniteSets, TLC

\* Server ids (slug + random suffix, generated once and never reused).
ServerIds == {"s1"}

\* Requests that may be in flight at the same time.
TaskIds == {"t1", "t2"}

\* Exit notifications the Docker event stream may hold undelivered per server.
MaxPendingExits == 1

\* Provider calls that may be in flight at the same time.
NativeCallIds == {"n1", "n2"}

\* Processes the native provider spawns in a run; their pids are 1..MaxSpawns.
MaxSpawns == 3
Pids == 1..MaxSpawns

\* Packets the RCON peer may send during one call.
MaxPackets == 3

\* Days the maintenance schedule is followed for.
MaxDays == 3

\* managed.get(serverId) === undefined.
NoPid == 0

\* config.backup.autoBackupOnStop (AUTO_BACKUP_ON_STOP !== 'false').
autoBackupOnStop == TRUE

\* config.backup.maxBackupsPerType (MAX_BACKUPS_PER_TYPE, 5 when unset).
maxBackupsPerType == 2

\* The clock reads 1..MaxClock (the millisecond field of the instant).
MaxClock == 2

\* WebSocket clients (uuids) that may be connected at the same time.
ClientIds == {"c1", "c2"}

\* The server ids a client may name in a subscribe or unsubscribe message.
Topics == {"s1", "s2"}

Undef == "undefined"
\* startedAt = new Date().toISOString(): the value is not compared anywhere.
Now == "T"

VARIABLES
    servers,     \* ServerService.servers: id -> ServerState (present = in the Map)
    allocated,   \* ids generateServerId has handed out so far
    sidecar,     \* disk: id -> "nodir" | "nofile" | updateStage in .garcon.yaml
    container,   \* Docker daemon: id -> "none" | "running" | "stopped" (created
                 \* or exited: the code reads State === 'running' only)
    exitEvents,  \* die/stop events emitted for id and not yet delivered
    tasks,       \* requests in flight, one record per task id
    out,         \* messages handed to broadcastToSubscribers by this step
    log,         \* status assignments and server_status publications of this
                 \* step, in program order
    ret          \* outcome of the handler that completed in this step (a
                 \* request rejected on entry is answered within its own
                 \* turn and leaves no trace)

\* The native provider (NativeExecutionProvider) is a component of its own:
\* ServerService drives the Docker backend only.
VARIABLES
    managed,     \* NativeExecutionProvider.managed: id -> pid of the entry
    processes,   \* OS processes spawned so far: pid -> [id, state]
    persisted,   \* native-processes.json: whether it exists, and its entries
    calls        \* provider calls in flight, one record per call id

\* The backup directories (BackupService keeps no state of its own) and the
\* wall clock its timestamps are read from.
VARIABLES
    backupDir,   \* disk: id -> file names under backupsDir/<id>
    clock        \* the current instant, in milliseconds

\* A backup file name is generated from (timestamp, type) and parsed back.
VARIABLES
    given,       \* the instant and the type a file name is generated from
    fileName,    \* getBackupFileName(timestamp, type), once generated
    parsed       \* parseBackupFileName(fileName), once parsed

\* The push channel (WebSocketService).
VARIABLES
    clients,     \* WebSocketService.clients, in insertion order: the records
                 \* [id, subscriptions, subscribedToAll]
    sockets,     \* client id -> "open" | "broken" (send throws)
    sent         \* the last broadcast: its message, the clients whose
                 \* socket.send was called and those it reached

\* The native provider's reconciliation at startup.
VARIABLES
    record,      \* the entry of native-processes.json (<<>> when no file)
    osTable,     \* OS process table: pid -> image name (<<>> when no process)
    reconciling  \* the await reconcile() has reached

\* One call of sendRconCommand.
VARIABLES
    rcon         \* its socket, `authenticated`, its timer and its promise

\* importServer's synthesis of the port list.
VARIABLES
    defaultPorts, \* template.defaultPorts: <<list>>, or <<>> when undefined
    requestPorts, \* request.ports: <<list>>, or <<>> when undefined
    ports         \* serverConfig.ports: <<list>> once stored

\* MaintenanceService's schedule.
VARIABLES
    wallClock,   \* the UTC instant: its year, day (days since 1970-01-01)
                 \* and hour, and the days elapsed since initialize()
    utcHour,     \* the hour of the cron expression of scheduledTask
    fired        \* runs of runMaintenance on the UTC day of wallClock, and the
                 \* hour of the last one

\* One call of copyDirectory(src, dest).
VARIABLES
    source,      \* the tree at src
    destination, \* the tree at dest
    copied       \* "no", or how the call ended: "ok", "error"

orchVars ==
    <<servers, allocated, sidecar, container, exitEvents, tasks, out, log, ret>>
nativeVars == <<managed, processes, persisted, calls>>
backupVars == <<backupDir, clock>>
nameVars == <<given, fileName, parsed>>
socketVars == <<clients, sockets, sent>>
reconcileVars == <<record, osTable, reconciling>>
rconVars == <<rcon>>
importVars == <<defaultPorts, requestPorts, ports>>
cronVars == <<wallClock, utcHour, fired>>
copyVars == <<source, destination, copied>>
unitVars == <<rconVars, importVars, cronVars, copyVars>>
vars ==
    <<orchVars, nativeVars, backupVars, nameVars, socketVars, reconcileVars,
      unitVars>>

Statuses == {"stopped", "starting", "running", "stopping", "error", "updating"}
Stages == {"none", "initiated", "applying"}

\* ---------------------------------------------------------------------------
\* Records
\* ---------------------------------------------------------------------------

\* The ServerState a Map entry points to.  `present` is membership in the Map:
\* a handler that captured `state` keeps writing to the object after
\* servers.delete(id).
NoServer ==
    [present |-> FALSE, status |-> "stopped", startedAt |-> Undef,
     updateStage |-> "none"]

\* The progress of the BackupService call a task awaits: the await it has
\* reached, the file name it generated, the timestamps it has still to pass
\* to deleteBackup, the length of its listing and the files it has unlinked.
NoCall ==
    [phase |-> "none", fileName |-> <<>>, toDelete |-> <<>>, listed |-> 0,
     deleted |-> {}]

IdleTask ==
    [op |-> "idle", id |-> "none", pc |-> "idle", resp |-> "none",
     handle |-> "none", call |-> NoCall]

NoRet == [op |-> "none", id |-> "none", result |-> "none"]

\* Results of a handler that ran to its end: it returned, or it threw the
\* error of a call it awaited.  The others are the rejections on entry
\* ("not_found", "state_error", "conflict").
Completions == {"ok", "error"}

\* A pid no process has been spawned with yet.
NoProcess == [id |-> "none", state |-> "unborn"]

IdleCall ==
    [op |-> "idle", id |-> "none", pc |-> "idle", pid |-> NoPid,
     entries |-> [id \in ServerIds |-> NoPid], written |-> FALSE,
     kill |-> "none"]

\* No broadcast made yet.
NoBroadcast == [message |-> <<>>, tried |-> {}, reached |-> {}]

\* WebSocketService.broadcastServerStatus / broadcastServerUpdate messages.
StatusMsg(id, status, startedAt, updateStage) ==
    [type |-> "server_status", serverId |-> id, status |-> status,
     startedAt |-> startedAt, updateStage |-> updateStage, action |-> Undef]

UpdateMsg(id, action) ==
    [type |-> "server_update", serverId |-> id, status |-> Undef,
     startedAt |-> Undef, updateStage |-> Undef, action |-> action]

\* The part of the state a handler segment works on.
Mem ==
    [servers |-> servers, tasks |-> tasks, out |-> <<>>, log |-> <<>>,
     ret |-> NoRet]

\* The status the Map holds for id ("absent" when id is not in the Map).
Authoritative(m, id) ==
    IF m.servers[id].present THEN m.servers[id].status ELSE "absent"

\* state.status = status.  The ServerState of an id that has left the Map is
\* still written, but it is no longer the server's state.
assignStatus(m, id, status) ==
    LET m1 == [m EXCEPT !.servers[id].status = status]
    IN  IF m.servers[id].present
        THEN [m1 EXCEPT !.log = Append(@, [kind |-> "set", id |-> id,
                                           status |-> status, auth |-> status])]
        ELSE m1

broadcastServerStatus(m, id, status, startedAt, updateStage) ==
    [m EXCEPT !.out = Append(@, StatusMsg(id, status, startedAt, updateStage)),
              !.log = Append(@, [kind |-> "pub", id |-> id, status |-> status,
                                 auth |-> Authoritative(m, id)])]

broadcastServerUpdate(m, id, action) ==
    [m EXCEPT !.out = Append(@, UpdateMsg(id, action))]

\* The handler returns (or throws) to its caller: the task is over.
Return(m, t, result) ==
    [m EXCEPT !.ret = [op |-> m.tasks[t].op, id |-> m.tasks[t].id,
                       result |-> result],
              !.tasks[t] = IdleTask]

\* Calls made on docker.getContainer(status.containerId): they address the
\* container whose Id the preceding getContainerStatus returned.
HandlePcs == {"cc_remove", "sc_start", "st_stop", "st_remove", "rm_remove"}

\* The call task t awaited threw: it left no response.
Threw(m, t) == m.tasks[t].resp = "none"

\* The handler issues an I/O call and is suspended until its response.
Await(m, t, pc) ==
    [m EXCEPT !.tasks[t].pc = pc, !.tasks[t].resp = "none",
              !.tasks[t].handle = IF pc \in HandlePcs THEN @ ELSE "none",
              !.tasks[t].call = NoCall]

\* ---------------------------------------------------------------------------
\* ServerService helpers
\* ---------------------------------------------------------------------------

updateStatus(m, id, status) ==
    IF m.servers[id].present
    THEN broadcastServerStatus(
             assignStatus(m, id, status),
             id, status, m.servers[id].startedAt, m.servers[id].updateStage)
    ELSE m

\* saveUpdateStage up to its await of writeYaml; the caller suspends on `pc`.
\* When the id is no longer in the Map it returns at once, nothing is written
\* and the caller goes on within the same turn.
saveUpdateStage(m, t, id, updateStage, pc) ==
    IF m.servers[id].present
    THEN Await([m EXCEPT !.servers[id].updateStage = updateStage], t, pc)
    ELSE m

\* ---------------------------------------------------------------------------
\* startServer, with DockerManager.createContainer and startContainer
\* ---------------------------------------------------------------------------

\* catch (error) { this.updateStatus(id, 'error'); throw error; }
startServerFailed(m, t) ==
    Return(updateStatus(m, m.tasks[t].id, "error"), t, "error")

startServerSucceeded(m, t) ==
    LET id == m.tasks[t].id
        m1 == [assignStatus(m, id, "running") EXCEPT
                   !.servers[id].startedAt = Now]
    IN  Return(broadcastServerStatus(m1, id, "running", Now, Undef), t, "ok")

\* Entry of startServer up to the first daemon call of createContainer.
startServer(m, t) ==
    LET id == m.tasks[t].id
        state == m.servers[id]
    IN  IF ~state.present THEN Return(m, t, "not_found")
        ELSE IF state.status = "running" THEN Return(m, t, "state_error")
        ELSE IF state.updateStage # "none" THEN Return(m, t, "state_error")
        ELSE Await(updateStatus(m, id, "starting"), t, "cc_status")

\* createContainer resumes from getContainerStatus, container.remove,
\* ensureImage or docker.createContainer.
resumeCreateContainer(m, t) ==
    LET pc == m.tasks[t].pc
        resp == m.tasks[t].resp
    IN  IF Threw(m, t) THEN startServerFailed(m, t)
        ELSE CASE pc = "cc_status" ->
                    IF resp = "absent" THEN Await(m, t, "cc_image")
                    ELSE Await(m, t, "cc_remove")
               [] pc = "cc_remove" -> Await(m, t, "cc_image")
               [] pc = "cc_image" -> Await(m, t, "cc_create")
               [] pc = "cc_create" -> Await(m, t, "sc_status")

\* startContainer resumes from getContainerStatus or container.start.
resumeStartContainer(m, t) ==
    LET pc == m.tasks[t].pc
        resp == m.tasks[t].resp
    IN  IF Threw(m, t) THEN startServerFailed(m, t)
        ELSE CASE pc = "sc_status" ->
                    IF resp = "absent" THEN startServerFailed(m, t)
                    ELSE IF resp = "running" THEN startServerSucceeded(m, t)
                    ELSE Await(m, t, "sc_start")
               [] pc = "sc_start" -> startServerSucceeded(m, t)

\* ---------------------------------------------------------------------------
\* initiateUpdate (after its optional stopServer)
\* ---------------------------------------------------------------------------

initiateUpdateDone(m, t) ==
    LET id == m.tasks[t].id
        m1 == updateStatus(m, id, "updating")
    IN  Return(broadcastServerStatus(m1, id, "updating", Undef, "initiated"),
               t, "ok")

\* initiateUpdate resumes from createBackup(id, 'pre-update') or from the
\* writeYaml of saveUpdateStage(id, 'initiated').
resumeInitiateUpdate(m, t) ==
    LET id == m.tasks[t].id
        pc == m.tasks[t].pc
        resp == m.tasks[t].resp
    IN  IF Threw(m, t) THEN Return(m, t, "error")
        ELSE CASE pc = "init_backup" ->
                    IF m.servers[id].present
                    THEN saveUpdateStage(m, t, id, "initiated", "init_save")
                    ELSE initiateUpdateDone(m, t)
               [] pc = "init_save" -> initiateUpdateDone(m, t)

\* ---------------------------------------------------------------------------
\* stopServer, restartServer, DockerManager.stopContainer
\* ---------------------------------------------------------------------------

\* catch (error) { this.updateStatus(id, 'error'); throw error; }
stopServerFailed(m, t) ==
    Return(updateStatus(m, m.tasks[t].id, "error"), t, "error")

\* Entry of stopServer up to createBackup(id, 'auto') or stopContainer.
stopServer(m, t) ==
    LET id == m.tasks[t].id
        state == m.servers[id]
    IN  IF ~state.present THEN Return(m, t, "not_found")
        ELSE IF state.status # "running" THEN Return(m, t, "state_error")
        ELSE Await(updateStatus(m, id, "stopping"), t,
                   IF autoBackupOnStop THEN "stop_backup" ELSE "st_status")

\* stopContainer has returned to stopServer; stopServer returns to the route,
\* to restartServer (which calls startServer: an error it throws on entry
\* ends the restart after its stop) or to initiateUpdate.
stopServerSucceeded(m, t) ==
    LET id == m.tasks[t].id
        op == m.tasks[t].op
        m1 == [assignStatus(m, id, "stopped") EXCEPT
                   !.servers[id].startedAt = Undef]
        m2 == broadcastServerStatus(m1, id, "stopped", Undef, Undef)
        m3 == startServer(m2, t)
    IN  CASE op = "stop" -> Return(m2, t, "ok")
          [] op = "restart" ->
               IF m3.tasks[t].op = "idle" THEN [m3 EXCEPT !.ret.result = "error"]
               ELSE m3
          [] op = "initiate" -> Await(m2, t, "init_backup")

\* stopServer resumes from createBackup(id, 'auto').
resumeStopServer(m, t) ==
    IF Threw(m, t) THEN stopServerFailed(m, t)
    ELSE Await(m, t, "st_status")

\* runMaintenance after stopContainer: the state is set without a publish.
\* server.restartAfterMaintenance is read from a ServerResponse, which
\* toResponse builds without that field: the restart branch is never taken.
maintenanceStopped(m, t) ==
    LET id == m.tasks[t].id
    IN  Return(IF m.servers[id].present
               THEN [assignStatus(m, id, "stopped") EXCEPT
                        !.servers[id].startedAt = Undef]
               ELSE m,
               t, "ok")

\* stopContainer resumes from getContainerStatus, container.stop or
\* container.remove; its caller is stopServer or runMaintenance (whose
\* try/catch logs the failure and ends the iteration).
resumeStopContainer(m, t) ==
    LET pc == m.tasks[t].pc
        resp == m.tasks[t].resp
        maint == m.tasks[t].op = "maint"
        returned == IF maint THEN maintenanceStopped(m, t)
                    ELSE stopServerSucceeded(m, t)
    IN  IF Threw(m, t)
        THEN IF maint THEN Return(m, t, "ok") ELSE stopServerFailed(m, t)
        ELSE CASE pc = "st_status" ->
                    IF resp = "absent" THEN returned
                    ELSE IF resp = "running" THEN Await(m, t, "st_stop")
                    ELSE Await(m, t, "st_remove")
               [] pc = "st_stop" -> Await(m, t, "st_remove")
               [] pc = "st_remove" -> returned

\* ---------------------------------------------------------------------------
\* acknowledgeCrash, deleteServer, DockerManager.removeContainer
\* ---------------------------------------------------------------------------

acknowledgeCrash(m, t) ==
    LET id == m.tasks[t].id
        state == m.servers[id]
    IN  IF ~state.present THEN Return(m, t, "not_found")
        ELSE IF state.status # "error" THEN Return(m, t, "state_error")
        ELSE Await(m, t, "rm_status")

acknowledgeCrashDone(m, t) ==
    LET id == m.tasks[t].id
        m1 == [assignStatus(m, id, "stopped") EXCEPT
                   !.servers[id].startedAt = Undef]
    IN  Return(broadcastServerStatus(m1, id, "stopped", Undef, Undef), t, "ok")

deleteServer(m, t) ==
    LET id == m.tasks[t].id
        state == m.servers[id]
    IN  IF ~state.present THEN Return(m, t, "not_found")
        ELSE IF state.status = "running" THEN Return(m, t, "state_error")
        ELSE Await(m, t, "rm_status")

\* removeContainer resumes from getContainerStatus or container.remove; its
\* caller is acknowledgeCrash or deleteServer (which goes on to
\* deleteDirectory).
resumeRemoveContainer(m, t) ==
    LET pc == m.tasks[t].pc
        resp == m.tasks[t].resp
        returned == IF m.tasks[t].op = "ack" THEN acknowledgeCrashDone(m, t)
                    ELSE Await(m, t, "del_dir")
    IN  IF Threw(m, t) THEN Return(m, t, "error")
        ELSE CASE pc = "rm_status" ->
                    IF resp = "absent" THEN returned
                    ELSE Await(m, t, "rm_remove")
               [] pc = "rm_remove" -> returned

\* deleteServer resumes from deleteDirectory.
resumeDeleteServer(m, t) ==
    LET id == m.tasks[t].id
    IN  IF Threw(m, t) THEN Return(m, t, "error")
        ELSE Return(broadcastServerUpdate(
                        [m EXCEPT !.servers[id].present = FALSE], id, "deleted"),
                    t, "ok")

\* ---------------------------------------------------------------------------
\* initiateUpdate (entry), applyUpdate, cancelUpdate
\* ---------------------------------------------------------------------------

initiateUpdate(m, t) ==
    LET id == m.tasks[t].id
        state == m.servers[id]
    IN  IF ~state.present THEN Return(m, t, "not_found")
        ELSE IF state.updateStage # "none" THEN Return(m, t, "conflict")
        ELSE IF state.status = "running" THEN stopServer(m, t)
        ELSE Await(m, t, "init_backup")

applyUpdate(m, t) ==
    LET id == m.tasks[t].id
        state == m.servers[id]
    IN  IF ~state.present THEN Return(m, t, "not_found")
        ELSE IF state.updateStage # "initiated" THEN Return(m, t, "state_error")
        ELSE saveUpdateStage(m, t, id, "applying", "apply_save1")

applyUpdateDone(m, t) ==
    LET id == m.tasks[t].id
        m1 == assignStatus(m, id, "stopped")
        m2 == broadcastServerStatus(m1, id, "stopped", Undef, "none")
    IN  Return(broadcastServerUpdate(m2, id, "updated"), t, "ok")

\* catch (error) { await this.saveUpdateStage(id, 'initiated'); ... }
applyUpdateCatch(m, t) ==
    LET id == m.tasks[t].id
    IN  IF m.servers[id].present
        THEN saveUpdateStage(m, t, id, "initiated", "apply_save3")
        ELSE Return(updateStatus(m, id, "error"), t, "error")

\* applyUpdate resumes from a writeYaml of saveUpdateStage ('applying',
\* 'none' inside the try, 'initiated' inside the catch) or from copyDirectory.
resumeApplyUpdate(m, t) ==
    LET id == m.tasks[t].id
        pc == m.tasks[t].pc
        ok == ~Threw(m, t)
    IN  CASE pc = "apply_save1" ->
               IF ok
               THEN Await(broadcastServerStatus(m, id, "updating", Undef,
                                                "applying"), t, "apply_copy")
               ELSE Return(m, t, "error")
          [] pc = "apply_copy" ->
               IF ~ok THEN applyUpdateCatch(m, t)
               ELSE IF m.servers[id].present
               THEN saveUpdateStage(m, t, id, "none", "apply_save2")
               ELSE applyUpdateDone(m, t)
          [] pc = "apply_save2" ->
               IF ok THEN applyUpdateDone(m, t) ELSE applyUpdateCatch(m, t)
          [] pc = "apply_save3" ->
               IF ok THEN Return(updateStatus(m, id, "error"), t, "error")
               ELSE Return(m, t, "error")

cancelUpdate(m, t) ==
    LET id == m.tasks[t].id
        state == m.servers[id]
    IN  IF ~state.present THEN Return(m, t, "not_found")
        ELSE IF state.updateStage = "none" THEN Return(m, t, "state_error")
        ELSE saveUpdateStage(m, t, id, "none", "cancel_save")

\* Faulty variant: a failed sidecar write puts the server in error, as the
\* catch blocks of startServer and stopServer do.
resumeCancelUpdateSetsError(m, t) ==
    LET id == m.tasks[t].id
        m1 == assignStatus(m, id, "stopped")
    IN  IF Threw(m, t) THEN Return(updateStatus(m, id, "error"), t, "error")
        ELSE Return(broadcastServerStatus(m1, id, "stopped", Undef, "none"),
                    t, "ok")

\* cancelUpdate resumes from the writeYaml of saveUpdateStage(id, 'none').
resumeCancelUpdate(m, t) ==
    LET id == m.tasks[t].id
        m1 == assignStatus(m, id, "stopped")
    IN  IF Threw(m, t) THEN Return(m, t, "error")
        ELSE Return(broadcastServerStatus(m1, id, "stopped", Undef, "none"),
                    t, "ok")

\* ---------------------------------------------------------------------------
\* runMaintenance, handleContainerExit, loadServers
\* ---------------------------------------------------------------------------

\* Entry of an iteration of runMaintenance for a server that listServers
\* reported running, up to createBackup(id, 'auto').
runMaintenance(m, t) ==
    Await(m, t, "m_backup")

\* runMaintenance resumes from createBackup; a failure is caught and logged.
resumeMaintenance(m, t) ==
    IF Threw(m, t) THEN Return(m, t, "ok")
    ELSE Await(m, t, "st_status")

\* Faulty variant: an exit while the server is starting is ignored.
handleContainerExitRunningOnly(m, id) ==
    LET state == m.servers[id]
    IN  IF ~state.present THEN m
        ELSE IF state.status = "running"
        THEN broadcastServerStatus(
                 [assignStatus(m, id, "error") EXCEPT
                      !.servers[id].startedAt = Undef],
                 id, "error", Undef, Undef)
        ELSE m

handleContainerExit(m, id) ==
    LET state == m.servers[id]
    IN  IF ~state.present THEN m
        ELSE IF state.status = "running" \/ state.status = "starting"
        THEN broadcastServerStatus(
                 [assignStatus(m, id, "error") EXCEPT
                      !.servers[id].startedAt = Undef],
                 id, "error", Undef, Undef)
        ELSE m

\* Faulty variant: a container that exists but is not running is taken for a
\* crash.
loadServerCrashed(file, status) ==
    IF file \notin Stages \/ status = "fail" THEN NoServer
    ELSE [present |-> TRUE,
          status |-> IF status = "running" THEN "running"
                     ELSE IF status # "none" THEN "error"
                     ELSE IF file # "none" THEN "updating"
                     ELSE "stopped",
          startedAt |-> IF status = "running" THEN Now ELSE Undef,
          updateStage |-> file]

\* The ServerState loadServers builds for one directory: `file` is what the
\* directory holds (sidecar), `status` what getContainerStatus answered
\* ("fail" when it threw: the catch logs and the server is not loaded).
loadServer(file, status) ==
    IF file \notin Stages \/ status = "fail" THEN NoServer
    ELSE [present |-> TRUE,
          status |-> IF status = "running" THEN "running"
                     ELSE IF file # "none" THEN "updating"
                     ELSE "stopped",
          startedAt |-> IF status = "running" THEN Now ELSE Undef,
          updateStage |-> file]

\* ---------------------------------------------------------------------------
\* The Docker daemon, as DockerManagerService calls it.  A call yields the
\* set of its successful outcomes (empty when the daemon can only answer with
\* an error): the container state afterwards, the response, the handle the
\* caller holds, and the number of die/stop events the daemon emits.
\* ---------------------------------------------------------------------------

Outcome(c, resp, handle, exits) ==
    [c |-> c, resp |-> resp, handle |-> handle, exits |-> exits]

\* getContainerStatus: docker.listContainers({ all: true, filters: { name } })
\* and the ContainerStatus { exists, running, containerId } built from it.
getContainerStatus(c, handle) ==
    IF c = "none" THEN { Outcome(c, "absent", "none", 0) }
    ELSE { Outcome(c, c, "live", 0) }

\* container.remove({ force: true }): a running container is killed (die).
\* 404 when the container the handle names is gone.
containerRemove(c, handle) ==
    IF handle = "live"
    THEN { Outcome("none", "ok", "none", IF c = "running" THEN 1 ELSE 0) }
    ELSE {}

\* ensureImage: image inspect, and a pull when it is missing.
ensureImage(c, handle) ==
    { Outcome(c, "ok", handle, 0) }

\* docker.createContainer(createOptions): 409 when the name is taken.
dockerCreateContainer(c, handle) ==
    IF c = "none" THEN { Outcome("stopped", "ok", handle, 0) } ELSE {}

\* container.start(): 304 when it is already running, 404 when it is gone.
containerStart(c, handle) ==
    IF handle = "live" /\ c = "stopped"
    THEN { Outcome("running", "ok", "none", 0) }
    ELSE {}

\* container.stop({ t }): the daemon emits die and stop; 304 when it is not
\* running, 404 when it is gone.
containerStop(c, handle) ==
    IF handle = "live" /\ c = "running"
    THEN { Outcome("stopped", "ok", handle, 2) }
    ELSE {}

DockerPcs ==
    {"cc_status", "cc_remove", "cc_image", "cc_create", "sc_status",
     "sc_start", "st_status", "st_stop", "st_remove", "rm_status", "rm_remove"}

\* createContainer and removeContainer read only status.exists.
dockerCall(pc, c, handle) ==
    CASE pc \in {"sc_status", "st_status"} -> getContainerStatus(c, handle)
      [] pc \in {"cc_status", "rm_status"} ->
             { [o EXCEPT !.resp = IF @ = "absent" THEN @ ELSE "exists"] :
                   o \in getContainerStatus(c, handle) }
      [] pc \in {"cc_remove", "st_remove", "rm_remove"} ->
             containerRemove(c, handle)
      [] pc = "cc_image" -> ensureImage(c, handle)
      [] pc = "cc_create" -> dockerCreateContainer(c, handle)
      [] pc = "sc_start" -> containerStart(c, handle)
      [] pc = "st_stop" -> containerStop(c, handle)

\* The event stream of startEventMonitoring (filters: die, stop).
emitExits(n, k) ==
    IF n + k > MaxPendingExits THEN MaxPendingExits ELSE n + k

\* ---------------------------------------------------------------------------
\* Backup file names (BackupService.getBackupFileName, parseBackupFileName).
\* A string is the sequence of its characters.
\* ---------------------------------------------------------------------------

\* BackupTypeSchema = z.enum([...]).
BackupTypes == {"manual", "auto", "pre-update", "pre-restore"}

\* The alternatives of the group (manual|auto|pre-update), in order.
ParsedTypes == <<"manual", "auto", "pre-update">>

TypeChars(type) ==
    CASE type = "manual" -> <<"m", "a", "n", "u", "a", "l">>
      [] type = "auto" -> <<"a", "u", "t", "o">>
      [] type = "pre-update" ->
             <<"p", "r", "e", "-", "u", "p", "d", "a", "t", "e">>
      [] type = "pre-restore" ->
             <<"p", "r", "e", "-", "r", "e", "s", "t", "o", "r", "e">>

DigitChars == <<"0", "1", "2", "3", "4", "5", "6", "7", "8", "9">>

\* \d
IsDigit(ch) == \E d \in 1..10 : DigitChars[d] = ch

DigitValue(ch) == (CHOOSE d \in 1..10 : DigitChars[d] = ch) - 1

RECURSIVE Power10(_)
Power10(w) == IF w = 0 THEN 1 ELSE 10 * Power10(w - 1)

\* n in decimal, padded with zeros to w digits.
Pad(n, w) == [i \in 1..w |-> DigitChars[((n \div Power10(w - i)) % 10) + 1]]

\* An instant: the UTC fields of a Date (years 0000 to 9999).
NewDate(year, month, day, hours, minutes, seconds, ms) ==
    [year |-> year, month |-> month, day |-> day, hours |-> hours,
     minutes |-> minutes, seconds |-> seconds, ms |-> ms]

\* Date.prototype.toISOString(): YYYY-MM-DDTHH:mm:ss.sssZ.
toISOString(d) ==
    Pad(d.year, 4) \o <<"-">> \o Pad(d.month, 2) \o <<"-">> \o Pad(d.day, 2)
    \o <<"T">> \o Pad(d.hours, 2) \o <<":">> \o Pad(d.minutes, 2) \o <<":">>
    \o Pad(d.seconds, 2) \o <<".">> \o Pad(d.ms, 3) \o <<"Z">>

\* timestamp.replace(/[:.]/g, '-')
sanitize(timestamp) ==
    [i \in 1..Len(timestamp) |->
        IF timestamp[i] \in {":", "."} THEN "-" ELSE timestamp[i]]

BackupPrefix == <<"b", "a", "c", "k", "u", "p", "-">>
TarGz == <<".", "t", "a", "r", ".", "g", "z">>

\* `backup-${sanitizedTimestamp}-${type}.tar.gz`
getBackupFileName(timestamp, type) ==
    BackupPrefix \o sanitize(timestamp) \o <<"-">> \o TypeChars(type) \o TarGz

HasPrefix(str, pre) ==
    Len(str) >= Len(pre) /\ SubSeq(str, 1, Len(pre)) = pre

HasSuffix(str, suf) ==
    Len(str) >= Len(suf) /\ SubSeq(str, Len(str) - Len(suf) + 1, Len(str)) = suf

\* The result of a match that failed.
Null == [timestamp |-> <<>>, type |-> "null"]

\* The tail -(type).tar.gz of the first pattern.
TypeTail(type) == <<"-">> \o TypeChars(type) \o TarGz

\* fileName.match(/^backup-(.+)-(manual|auto|pre-update)\.tar\.gz$/): the
\* alternatives with which the pattern matches.  (.+) is greedy, so the match
\* is the one with the longest first group, that is the shortest tail.
MatchingTypes(name) ==
    { i \in 1..Len(ParsedTypes) :
        /\ HasPrefix(name, BackupPrefix)
        /\ HasSuffix(name, TypeTail(ParsedTypes[i]))
        /\ Len(name) - Len(BackupPrefix) - Len(TypeTail(ParsedTypes[i])) >= 1 }

\* sanitized.match(/^(\d{4}-\d{2}-\d{2}T\d{2})-(\d{2})-(\d{2})-(\d{3}Z)$/)
IsSanitizedTimestamp(str) ==
    /\ Len(str) = 24
    /\ \A i \in {1, 2, 3, 4, 6, 7, 9, 10, 12, 13, 15, 16, 18, 19, 21, 22, 23} :
           IsDigit(str[i])
    /\ \A i \in {5, 8, 14, 17, 20} : str[i] = "-"
    /\ str[11] = "T"
    /\ str[24] = "Z"

\* `${tsMatch[1]}:${tsMatch[2]}:${tsMatch[3]}.${tsMatch[4]}`
reconstruct(str) ==
    SubSeq(str, 1, 13) \o <<":">> \o SubSeq(str, 15, 16) \o <<":">>
    \o SubSeq(str, 18, 19) \o <<".">> \o SubSeq(str, 21, 24)

parseBackupFileName(name) ==
    LET match == MatchingTypes(name)
        i == CHOOSE j \in match :
                 \A k \in match : Len(TypeChars(ParsedTypes[j]))
                                       <= Len(TypeChars(ParsedTypes[k]))
        sanitized == SubSeq(name, Len(BackupPrefix) + 1,
                            Len(name) - Len(TypeTail(ParsedTypes[i])))
    IN  IF match = {} THEN Null
        ELSE [timestamp |-> IF IsSanitizedTimestamp(sanitized)
                            THEN reconstruct(sanitized)
                            ELSE sanitized,
              type |-> ParsedTypes[i]]

\* ---------------------------------------------------------------------------
\* The file system, as the file store and the backup engine use it.  A call
\* yields the set of its successful outcomes: what the server directory
\* holds afterwards and the response.
\* ---------------------------------------------------------------------------

FsOutcome(file, dir, resp) == [file |-> file, dir |-> dir, resp |-> resp]

\* new Date(): only the millisecond field moves in a run.
Today(ms) == NewDate(2026, 3, 14, 9, 26, 53, ms)

RECURSIVE NumberOf(_)
NumberOf(str) ==
    IF str = <<>> THEN 0
    ELSE 10 * NumberOf(SubSeq(str, 1, Len(str) - 1)) + DigitValue(str[Len(str)])

\* new Date(timestamp).getTime(), as the fields that order two instants.
getTime(timestamp) ==
    << NumberOf(SubSeq(timestamp, 1, 4)), NumberOf(SubSeq(timestamp, 6, 7)),
       NumberOf(SubSeq(timestamp, 9, 10)), NumberOf(SubSeq(timestamp, 12, 13)),
       NumberOf(SubSeq(timestamp, 15, 16)), NumberOf(SubSeq(timestamp, 18, 19)),
       NumberOf(SubSeq(timestamp, 21, 23)) >>

\* getTime(a) < getTime(b)
Earlier(a, b) ==
    LET ta == getTime(a)
        tb == getTime(b)
    IN  \E i \in 1..7 : /\ ta[i] < tb[i]
                        /\ \A j \in 1..(i - 1) : ta[j] = tb[j]

\* The BackupResponse entries listBackups builds: the files whose name parses.
BackupEntries(dir) ==
    LET entry(name) ==
            LET parsed_ == parseBackupFileName(name)
            IN  [timestamp |-> parsed_.timestamp, type |-> parsed_.type,
                 fileName |-> name]
    IN  { e \in { entry(name) : name \in dir } : e.type # Null.type }

\* listBackups: the entries sorted by descending timestamp.  Entries of equal
\* timestamp stay in the order listFiles returned them, which is any order.
listBackups(dir) ==
    LET es == BackupEntries(dir)
        n == Cardinality(es)
    IN  { q \in [1..n -> es] :
            /\ \A i, j \in 1..n : i # j => q[i] # q[j]
            /\ \A i, j \in 1..n :
                   i < j => ~Earlier(q[i].timestamp, q[j].timestamp) }

\* config.backup as loadConfig builds it.
backupConfig ==
    [maxBackupsPerType |-> maxBackupsPerType,
     autoBackupOnStop |-> autoBackupOnStop]

\* Reading a property of an object: <<v>> when it has the property,
\* <<>> (undefined) when it has not.
Property(object, name) ==
    IF name \in DOMAIN object THEN <<object[name]>> ELSE <<>>

\* const maxBackups = config.backup.maxBackupsPerServer
maxBackups == Property(backupConfig, "maxBackupsPerServer")

\* n <= v: false when v is undefined (NaN).
LessOrEqual(n, v) == v # <<>> /\ n <= v[1]

\* Array.prototype.slice(start): from 0 when start is undefined.
slice(array, start) ==
    IF start = <<>> THEN array ELSE SubSeq(array, start[1] + 1, Len(array))

\* enforceRetentionPolicy: the timestamps it passes to deleteBackup, in order.
toDelete(backups) ==
    IF LessOrEqual(Len(backups), maxBackups) THEN <<>>
    ELSE LET excess == slice(backups, maxBackups)
         IN  [i \in 1..Len(excess) |-> excess[i].timestamp]

\* deleteBackup: the file it unlinks is the first of the directory whose
\* parsed timestamp equals `timestamp`; NotFoundError when there is none.
unlinked(dir, timestamp) ==
    { e.fileName : e \in { b \in BackupEntries(dir) : b.timestamp = timestamp } }

deleteBackup(dir, timestamp) ==
    { dir \ {name} : name \in unlinked(dir, timestamp) }

\* deleteAllBackups(serverId): deleteDirectory(backupDir).
deleteAllBackups(dir) == {}

\* The pcs at which a task awaits BackupService.createBackup, and the route
\* DELETE /servers/:id/backups/:timestamp awaiting deleteBackup.
CreatePcs == {"stop_backup", "init_backup", "m_backup", "route_backup"}
BackupPcs == CreatePcs \cup {"route_delete"}

\* The type the caller passes to createBackup.
BackupTypeAt(pc) ==
    CASE pc = "init_backup" -> "pre-update"
      [] pc \in {"stop_backup", "m_backup"} -> "auto"
      [] pc = "route_backup" -> "manual"
      [] pc = "route_delete" -> "none"

\* One await of createBackup (or of the route's deleteBackup): the file
\* system carries out the call awaited and the method runs on to its next
\* await, to its return (resp "ok") or to the error it throws (phase
\* "failed").  The awaits are pathExists(serverPath), fs.mkdir,
\* createArchive, fs.stat, the listing of enforceRetentionPolicy and each
\* deleteBackup.
backupStep(call, type, file, dir, now) ==
    LET step(c, d, resp) == [call |-> c, dir |-> d, resp |-> resp]
        failed == step([call EXCEPT !.phase = "failed"], dir, "none")
    IN  CASE call.phase = "none" ->
               IF file = "nodir" THEN { failed }
               ELSE { step([call EXCEPT !.phase = "mkdir"], dir, "none") }
          [] call.phase = "mkdir" ->
               { step([call EXCEPT !.phase = "archive",
                                   !.fileName = getBackupFileName(
                                                    toISOString(now), type)],
                      dir, "none") }
          [] call.phase = "archive" ->
               { step([call EXCEPT !.phase = "stat"],
                      dir \cup {call.fileName}, "none") }
          [] call.phase = "stat" ->
               IF call.fileName \notin dir THEN { failed }
               ELSE { step([call EXCEPT !.phase = "list"], dir, "none") }
          [] call.phase = "list" ->
               { LET excess == toDelete(q)
                 IN  IF excess = <<>>
                     THEN step([call EXCEPT !.phase = "done",
                                            !.listed = Len(q)], dir, "ok")
                     ELSE step([call EXCEPT !.phase = "delete",
                                            !.listed = Len(q),
                                            !.toDelete = excess], dir, "none") :
                     q \in listBackups(dir) }
          [] call.phase = "delete" ->
               LET found == unlinked(dir, Head(call.toDelete))
               IN  IF found = {} THEN { failed }
                   ELSE { LET c == [call EXCEPT !.toDelete = Tail(@),
                                                !.deleted = @ \cup {name}]
                          IN  IF c.toDelete = <<>>
                              THEN step([c EXCEPT !.phase = "done"],
                                        dir \ {name}, "ok")
                              ELSE step(c, dir \ {name}, "none") :
                              name \in found }
          [] call.phase \in {"done", "failed"} -> {}

\* The directories createBackup can leave when nothing else touches the disk
\* between its awaits.
RECURSIVE backupRun(_, _, _, _, _)
backupRun(call, type, file, dir, now) ==
    IF call.phase \in {"done", "failed"} THEN { dir }
    ELSE UNION { backupRun(o.call, type, file, o.dir, now) :
                     o \in backupStep(call, type, file, dir, now) }

\* backupService.createBackup carried out in one piece: NotFoundError when
\* the server directory is missing.
createBackup(file, dir, now, type) ==
    IF file # "nodir"
    THEN { FsOutcome(file, d, "ok") :
               d \in backupRun(NoCall, type, file, dir, now) }
    ELSE {}

\* writeYaml(configPath, state.config) with config.updateStage = updateStage.
writeYaml(file, dir, updateStage) ==
    IF file # "nodir" THEN { FsOutcome(updateStage, dir, "ok") } ELSE {}

\* copyDirectory(sourcePath, serverPath): creates the destination when it is
\* missing; the source holds no sidecar.
copyDirectory(file, dir) ==
    { FsOutcome(IF file = "nodir" THEN "nofile" ELSE file, dir, "ok") }

\* deleteDirectory(serverPath).
deleteDirectory(file, dir) ==
    { FsOutcome("nodir", dir, "ok") }

FsPcs ==
    {"stop_backup", "init_backup", "m_backup", "route_backup", "init_save",
     "apply_save1", "apply_save2", "apply_save3", "cancel_save", "apply_copy",
     "del_dir"}

\* Faulty variant: deleteServer removes the backup directory with the server
\* directory.
fsCallDeletingBackups(pc, file, dir, now) ==
    CASE pc \in CreatePcs -> createBackup(file, dir, now, BackupTypeAt(pc))
      [] pc \in {"init_save", "apply_save3"} -> writeYaml(file, dir, "initiated")
      [] pc = "apply_save1" -> writeYaml(file, dir, "applying")
      [] pc \in {"apply_save2", "cancel_save"} -> writeYaml(file, dir, "none")
      [] pc = "apply_copy" -> copyDirectory(file, dir)
      [] pc = "del_dir" -> deleteDirectory(file, deleteAllBackups(dir))

fsCall(pc, file, dir, now) ==
    CASE pc \in CreatePcs -> createBackup(file, dir, now, BackupTypeAt(pc))
      [] pc \in {"init_save", "apply_save3"} -> writeYaml(file, dir, "initiated")
      [] pc = "apply_save1" -> writeYaml(file, dir, "applying")
      [] pc \in {"apply_save2", "cancel_save"} -> writeYaml(file, dir, "none")
      [] pc = "apply_copy" -> copyDirectory(file, dir)
      [] pc = "del_dir" -> deleteDirectory(file, dir)

\* ---------------------------------------------------------------------------
\* Initial state and actions
\* ---------------------------------------------------------------------------

\* A fresh data directory: no server, no container, nothing in flight.
InitServices ==
    /\ servers = [id \in ServerIds |-> NoServer]
    /\ allocated = {}
    /\ sidecar = [id \in ServerIds |-> "nodir"]
    /\ container = [id \in ServerIds |-> "none"]
    /\ exitEvents = [id \in ServerIds |-> 0]
    /\ tasks = [t \in TaskIds |-> IdleTask]
    /\ out = <<>>
    /\ log = <<>>
    /\ ret = NoRet
    /\ managed = [id \in ServerIds |-> NoPid]
    /\ processes = [p \in Pids |-> NoProcess]
    /\ persisted = [exists |-> FALSE, entries |-> [id \in ServerIds |-> NoPid]]
    /\ calls = [c \in NativeCallIds |-> IdleCall]
    /\ backupDir = [id \in ServerIds |-> {}]
    /\ clock = 1
    /\ clients = <<>>
    /\ sockets = [c \in ClientIds |-> "open"]
    /\ sent = NoBroadcast

\* Nothing to reconcile: no file, no process.
NoReconcile ==
    /\ record = <<>>
    /\ osTable = [p \in Pids |-> <<>>]
    /\ reconciling = "idle"

\* No RCON call.
NoRconCall ==
    rcon = [socket |-> "none", authenticated |-> FALSE, timer |-> FALSE,
            promise |-> "none", wrote |-> <<>>, received |-> 0,
            responseBuffer |-> <<>>]

\* No import.
NoImport == defaultPorts = <<>> /\ requestPorts = <<>> /\ ports = <<>>

\* No schedule: MaintenanceService.initialize has not run.
NoSchedule ==
    /\ wallClock = [year |-> 1970, day |-> 0, hour |-> 0, elapsed |-> 0]
    /\ utcHour = 0
    /\ fired = [count |-> 0, hour |-> 0]

\* No copy.
NoCopy == source = <<>> /\ destination = <<>> /\ copied = "no"

Init ==
    /\ InitServices
    /\ NoReconcile
    /\ NoRconCall /\ NoImport /\ NoSchedule /\ NoCopy
    /\ given = <<>>
    /\ fileName = <<>>
    /\ parsed = <<>>

\* Task ids carry no meaning (a request takes any free one): a state stands
\* for all its renamings, and every step leaves the tasks in one fixed order.
Renamed(ts) ==
    CHOOSE f \in { [t \in TaskIds |-> ts[p[t]]] : p \in Permutations(TaskIds) } :
        TRUE

Commit(m) ==
    /\ servers' = m.servers
    /\ tasks' = Renamed(m.tasks)
    /\ out' = m.out
    /\ log' = m.log
    /\ ret' = IF m.ret.result \in Completions THEN m.ret ELSE NoRet
    /\ UNCHANGED <<nativeVars, backupVars, nameVars, socketVars, reconcileVars, unitVars>>

NewTask(t, op, id) ==
    [Mem EXCEPT !.tasks[t] = [op |-> op, id |-> id, pc |-> "entry",
                               resp |-> "none", handle |-> "none",
                               call |-> NoCall]]

\* A request takes the first free task.
Idle(t) ==
    /\ tasks[t].op = "idle"
    /\ t = CHOOSE u \in TaskIds : tasks[u].op = "idle"

\* importServer with a valid request.  The id is fresh, so no other handler
\* can name the server before servers.set: the copy, the sidecar write and
\* the Map insertion are one step.
ImportServer(id) ==
    /\ id \notin allocated
    /\ allocated' = allocated \cup {id}
    /\ sidecar' = [sidecar EXCEPT ![id] = "none"]
    /\ servers' = [servers EXCEPT ![id] =
                       [present |-> TRUE, status |-> "stopped",
                        startedAt |-> Undef, updateStage |-> "none"]]
    /\ out' = <<UpdateMsg(id, "created")>>
    /\ log' = <<>>
    /\ ret' = [op |-> "import", id |-> id, result |-> "ok"]
    /\ UNCHANGED <<container, exitEvents, tasks>>
    /\ UNCHANGED <<nativeVars, backupVars, nameVars, socketVars, reconcileVars, unitVars>>

RequestStart(t, id) ==
    /\ Idle(t)
    /\ Commit(startServer(NewTask(t, "start", id), t))
    /\ UNCHANGED <<allocated, sidecar, container, exitEvents>>

RequestStop(t, id) ==
    /\ Idle(t)
    /\ Commit(stopServer(NewTask(t, "stop", id), t))
    /\ UNCHANGED <<allocated, sidecar, container, exitEvents>>

\* restartServer: await this.stopServer(id); return this.startServer(id).
RequestRestart(t, id) ==
    /\ Idle(t)
    /\ Commit(stopServer(NewTask(t, "restart", id), t))
    /\ UNCHANGED <<allocated, sidecar, container, exitEvents>>

RequestInitiateUpdate(t, id) ==
    /\ Idle(t)
    /\ Commit(initiateUpdate(NewTask(t, "initiate", id), t))
    /\ UNCHANGED <<allocated, sidecar, container, exitEvents>>

RequestApplyUpdate(t, id) ==
    /\ Idle(t)
    /\ Commit(applyUpdate(NewTask(t, "apply", id), t))
    /\ UNCHANGED <<allocated, sidecar, container, exitEvents>>

RequestCancelUpdate(t, id) ==
    /\ Idle(t)
    /\ Commit(cancelUpdate(NewTask(t, "cancel", id), t))
    /\ UNCHANGED <<allocated, sidecar, container, exitEvents>>

RequestAcknowledgeCrash(t, id) ==
    /\ Idle(t)
    /\ Commit(acknowledgeCrash(NewTask(t, "ack", id), t))
    /\ UNCHANGED <<allocated, sidecar, container, exitEvents>>

RequestDelete(t, id) ==
    /\ Idle(t)
    /\ Commit(deleteServer(NewTask(t, "delete", id), t))
    /\ UNCHANGED <<allocated, sidecar, container, exitEvents>>

\* The cron task fires: listServers, keep those running, process them.
Maintenance(t, id) ==
    /\ Idle(t)
    /\ servers[id].present /\ servers[id].status = "running"
    /\ Commit(runMaintenance(NewTask(t, "maint", id), t))
    /\ UNCHANGED <<allocated, sidecar, container, exitEvents>>

\* The daemon processes the call task t awaits.  Removing a container
\* invalidates every handle held on it.
DockerDaemon(t) ==
    /\ tasks[t].pc \in DockerPcs
    /\ tasks[t].resp = "none"
    /\ LET id == tasks[t].id
       IN  \E o \in dockerCall(tasks[t].pc, container[id], tasks[t].handle) :
             /\ container' = [container EXCEPT ![id] = o.c]
             /\ exitEvents' = [exitEvents EXCEPT ![id] = emitExits(@, o.exits)]
             /\ tasks' = Renamed([u \in TaskIds |->
                    IF u = t
                    THEN [tasks[t] EXCEPT !.resp = o.resp, !.handle = o.handle]
                    ELSE IF /\ tasks[u].id = id
                            /\ tasks[u].handle = "live"
                            /\ o.c = "none" /\ container[id] # "none"
                    THEN [tasks[u] EXCEPT !.handle = "stale"]
                    ELSE tasks[u]])
    /\ out' = <<>>
    /\ log' = <<>>
    /\ ret' = NoRet
    /\ UNCHANGED <<servers, allocated, sidecar>>
    /\ UNCHANGED <<nativeVars, backupVars, nameVars, socketVars, reconcileVars, unitVars>>

\* The file system processes the call task t awaits.
FileSystem(t) ==
    /\ tasks[t].pc \in FsPcs
    /\ tasks[t].resp = "none"
    /\ LET id == tasks[t].id
       IN  \E o \in fsCall(tasks[t].pc, sidecar[id], backupDir[id],
                            Today(clock)) :
             /\ sidecar' = [sidecar EXCEPT ![id] = o.file]
             /\ backupDir' = [backupDir EXCEPT ![id] = o.dir]
             /\ tasks' = Renamed([tasks EXCEPT ![t].resp = o.resp])
    /\ out' = <<>>
    /\ log' = <<>>
    /\ ret' = NoRet
    /\ UNCHANGED <<servers, allocated, container, exitEvents>>
    /\ UNCHANGED <<nativeVars, clock, nameVars, socketVars, reconcileVars, unitVars>>

\* Task t resumes from the call it awaits: with the response, or with an
\* error when the call has left none.
Resumes(t, pcs) ==
    /\ tasks[t].pc \in pcs
    /\ UNCHANGED <<allocated, sidecar, container, exitEvents>>

ResumeCreateContainer(t) ==
    /\ Resumes(t, {"cc_status", "cc_remove", "cc_image", "cc_create"})
    /\ Commit(resumeCreateContainer(Mem, t))

ResumeStartContainer(t) ==
    /\ Resumes(t, {"sc_status", "sc_start"})
    /\ Commit(resumeStartContainer(Mem, t))

ResumeStopServer(t) ==
    /\ Resumes(t, {"stop_backup"})
    /\ Commit(resumeStopServer(Mem, t))

ResumeStopContainer(t) ==
    /\ Resumes(t, {"st_status", "st_stop", "st_remove"})
    /\ Commit(resumeStopContainer(Mem, t))

ResumeRemoveContainer(t) ==
    /\ Resumes(t, {"rm_status", "rm_remove"})
    /\ Commit(resumeRemoveContainer(Mem, t))

ResumeDeleteServer(t) ==
    /\ Resumes(t, {"del_dir"})
    /\ Commit(resumeDeleteServer(Mem, t))

ResumeInitiateUpdate(t) ==
    /\ Resumes(t, {"init_backup", "init_save"})
    /\ Commit(resumeInitiateUpdate(Mem, t))

ResumeApplyUpdate(t) ==
    /\ Resumes(t, {"apply_save1", "apply_copy", "apply_save2", "apply_save3"})
    /\ Commit(resumeApplyUpdate(Mem, t))

ResumeCancelUpdate(t) ==
    /\ Resumes(t, {"cancel_save"})
    /\ Commit(resumeCancelUpdate(Mem, t))

ResumeMaintenance(t) ==
    /\ Resumes(t, {"m_backup"})
    /\ Commit(resumeMaintenance(Mem, t))

\* The game server process ends on its own: the daemon emits die.
ContainerExits(id) ==
    /\ container[id] = "running"
    /\ container' = [container EXCEPT ![id] = "stopped"]
    /\ exitEvents' = [exitEvents EXCEPT ![id] = emitExits(@, 1)]
    /\ out' = <<>>
    /\ log' = <<>>
    /\ ret' = NoRet
    /\ UNCHANGED <<servers, allocated, sidecar, tasks>>
    /\ UNCHANGED <<nativeVars, backupVars, nameVars, socketVars, reconcileVars, unitVars>>

\* The event stream delivers one event to the callback initialize registered.
DeliverExit(id) ==
    /\ exitEvents[id] > 0
    /\ exitEvents' = [exitEvents EXCEPT ![id] = @ - 1]
    /\ Commit(handleContainerExit(Mem, id))
    /\ UNCHANGED <<allocated, sidecar, container>>

\* The process is restarted: every handler in flight and every undelivered
\* event is lost, and initialize() rebuilds the Map with loadServers.
ProcessRestart ==
    /\ \E answer \in [ServerIds -> BOOLEAN] :
          servers' = [id \in ServerIds |->
                         loadServer(sidecar[id],
                                    IF answer[id] THEN container[id] ELSE "fail")]
    /\ tasks' = [t \in TaskIds |-> IdleTask]
    /\ exitEvents' = [id \in ServerIds |-> 0]
    /\ out' = <<>>
    /\ log' = <<>>
    /\ ret' = NoRet
    /\ UNCHANGED <<allocated, sidecar, container>>
    /\ UNCHANGED <<nativeVars, backupVars, nameVars, socketVars, reconcileVars, unitVars>>

Next ==
    \/ \E id \in ServerIds : ImportServer(id)
    \/ \E t \in TaskIds, id \in ServerIds : RequestStart(t, id)
    \/ \E t \in TaskIds, id \in ServerIds : RequestStop(t, id)
    \/ \E t \in TaskIds, id \in ServerIds : RequestRestart(t, id)
    \/ \E t \in TaskIds, id \in ServerIds : RequestInitiateUpdate(t, id)
    \/ \E t \in TaskIds, id \in ServerIds : RequestApplyUpdate(t, id)
    \/ \E t \in TaskIds, id \in ServerIds : RequestCancelUpdate(t, id)
    \/ \E t \in TaskIds, id \in ServerIds : RequestAcknowledgeCrash(t, id)
    \/ \E t \in TaskIds, id \in ServerIds : RequestDelete(t, id)
    \/ \E t \in TaskIds, id \in ServerIds : Maintenance(t, id)
    \/ \E t \in TaskIds : DockerDaemon(t)
    \/ \E t \in TaskIds : FileSystem(t)
    \/ \E t \in TaskIds : ResumeCreateContainer(t)
    \/ \E t \in TaskIds : ResumeStartContainer(t)
    \/ \E t \in TaskIds : ResumeStopServer(t)
    \/ \E t \in TaskIds : ResumeStopContainer(t)
    \/ \E t \in TaskIds : ResumeRemoveContainer(t)
    \/ \E t \in TaskIds : ResumeDeleteServer(t)
    \/ \E t \in TaskIds : ResumeInitiateUpdate(t)
    \/ \E t \in TaskIds : ResumeApplyUpdate(t)
    \/ \E t \in TaskIds : ResumeCancelUpdate(t)
    \/ \E t \in TaskIds : ResumeMaintenance(t)
    \/ \E id \in ServerIds : ContainerExits(id)
    \/ \E id \in ServerIds : DeliverExit(id)
    \/ ProcessRestart

Spec == Init /\ [][Next]_vars

\* The runs in which requests are served one at a time, no call to the
\* daemon or to the file system fails, the backend keeps running and no game
\* server process ends on its own.  Until an exit notification moves a
\* server to error, a container then runs only while its server is starting,
\* running or stopping: createContainer and removeContainer find no running
\* container to kill, and every die/stop event stems from a container.stop()
\* the backend has called.
NoneInFlight == \A t \in TaskIds : tasks[t].op = "idle"

Answered(t) == tasks[t].resp # "none"

NextOwnStops ==
    \/ \E id \in ServerIds : ImportServer(id)
    \/ \E t \in TaskIds, id \in ServerIds : NoneInFlight /\ RequestStart(t, id)
    \/ \E t \in TaskIds, id \in ServerIds : NoneInFlight /\ RequestStop(t, id)
    \/ \E t \in TaskIds, id \in ServerIds :
          NoneInFlight /\ RequestRestart(t, id)
    \/ \E t \in TaskIds, id \in ServerIds :
          NoneInFlight /\ RequestInitiateUpdate(t, id)
    \/ \E t \in TaskIds, id \in ServerIds :
          NoneInFlight /\ RequestApplyUpdate(t, id)
    \/ \E t \in TaskIds, id \in ServerIds :
          NoneInFlight /\ RequestCancelUpdate(t, id)
    \/ \E t \in TaskIds, id \in ServerIds :
          NoneInFlight /\ RequestAcknowledgeCrash(t, id)
    \/ \E t \in TaskIds, id \in ServerIds : NoneInFlight /\ RequestDelete(t, id)
    \/ \E t \in TaskIds, id \in ServerIds : NoneInFlight /\ Maintenance(t, id)
    \/ \E t \in TaskIds : DockerDaemon(t)
    \/ \E t \in TaskIds : FileSystem(t)
    \/ \E t \in TaskIds : Answered(t) /\ ResumeCreateContainer(t)
    \/ \E t \in TaskIds : Answered(t) /\ ResumeStartContainer(t)
    \/ \E t \in TaskIds : Answered(t) /\ ResumeStopServer(t)
    \/ \E t \in TaskIds : Answered(t) /\ ResumeStopContainer(t)
    \/ \E t \in TaskIds : Answered(t) /\ ResumeRemoveContainer(t)
    \/ \E t \in TaskIds : Answered(t) /\ ResumeDeleteServer(t)
    \/ \E t \in TaskIds : Answered(t) /\ ResumeInitiateUpdate(t)
    \/ \E t \in TaskIds : Answered(t) /\ ResumeApplyUpdate(t)
    \/ \E t \in TaskIds : Answered(t) /\ ResumeCancelUpdate(t)
    \/ \E t \in TaskIds : Answered(t) /\ ResumeMaintenance(t)
    \/ \E id \in ServerIds : DeliverExit(id)

SpecOwnStops == Init /\ [][NextOwnStops]_vars

\* The runs in which the backend is not restarted and an initiate-update is
\* accepted only while nothing else is in flight, nothing else being accepted
\* before it has returned.  No initiate-update then runs between the
\* acceptance of a cancel-update and its return, and an id leaves the Map
\* only in the turn in which deleteServer returns.
NoInitiate == \A t \in TaskIds : tasks[t].op # "initiate"

NextSoleInitiate ==
    \/ \E id \in ServerIds : ImportServer(id)
    \/ \E t \in TaskIds, id \in ServerIds :
          NoneInFlight /\ RequestInitiateUpdate(t, id)
    \/ \E t \in TaskIds, id \in ServerIds :
          NoInitiate /\ RequestStart(t, id)
    \/ \E t \in TaskIds, id \in ServerIds :
          NoInitiate /\ RequestStop(t, id)
    \/ \E t \in TaskIds, id \in ServerIds :
          NoInitiate /\ RequestRestart(t, id)
    \/ \E t \in TaskIds, id \in ServerIds :
          NoInitiate /\ RequestApplyUpdate(t, id)
    \/ \E t \in TaskIds, id \in ServerIds :
          NoInitiate /\ RequestCancelUpdate(t, id)
    \/ \E t \in TaskIds, id \in ServerIds :
          NoInitiate /\ RequestAcknowledgeCrash(t, id)
    \/ \E t \in TaskIds, id \in ServerIds :
          NoInitiate /\ RequestDelete(t, id)
    \/ \E t \in TaskIds, id \in ServerIds :
          NoInitiate /\ Maintenance(t, id)
    \/ \E t \in TaskIds : DockerDaemon(t)
    \/ \E t \in TaskIds : FileSystem(t)
    \/ \E t \in TaskIds : ResumeCreateContainer(t)
    \/ \E t \in TaskIds : ResumeStartContainer(t)
    \/ \E t \in TaskIds : ResumeStopServer(t)
    \/ \E t \in TaskIds : ResumeStopContainer(t)
    \/ \E t \in TaskIds : ResumeRemoveContainer(t)
    \/ \E t \in TaskIds : ResumeDeleteServer(t)
    \/ \E t \in TaskIds : ResumeInitiateUpdate(t)
    \/ \E t \in TaskIds : ResumeApplyUpdate(t)
    \/ \E t \in TaskIds : ResumeCancelUpdate(t)
    \/ \E t \in TaskIds : ResumeMaintenance(t)
    \/ \E id \in ServerIds : ContainerExits(id)
    \/ \E id \in ServerIds : DeliverExit(id)

SpecSoleInitiate == Init /\ [][NextSoleInitiate]_vars

\* ---------------------------------------------------------------------------
\* NativeExecutionProvider.startServer and the life of the processes it
\* spawns.  isProcessAlive runs process.kill(pid, 0) synchronously, so the
\* check of the managed entry and what follows it up to fs.mkdir are one turn.
\* No exit callback is registered with the native provider.
\* ---------------------------------------------------------------------------

isProcessAlive(pid) == processes[pid].state = "alive"

cleanupManaged(mg, id) == [mg EXCEPT ![id] = NoPid]

\* A provider call takes the first free call id.
FreeCall(c) ==
    /\ calls[c].op = "idle"
    /\ c = CHOOSE d \in NativeCallIds : calls[d].op = "idle"

\* Entry of startServer up to `await fs.mkdir`: throws 'Process is already
\* running' when the entry's process is alive, drops a stale entry otherwise.
NativeStartServer(c, id) ==
    /\ FreeCall(c)
    /\ IF managed[id] # NoPid /\ isProcessAlive(managed[id])
       THEN UNCHANGED <<managed, calls>>
       ELSE /\ managed' = cleanupManaged(managed, id)
            /\ calls' = [calls EXCEPT ![c] =
                   [IdleCall EXCEPT !.op = "start", !.id = id, !.pc = "ns_mkdir"]]
    /\ UNCHANGED <<processes, persisted>>
    /\ UNCHANGED <<orchVars, backupVars, nameVars, socketVars, reconcileVars, unitVars>>

\* startServer resumes from fs.mkdir(logDir): on to fs.open, or the error.
ResumeNativeMkdir(c) ==
    /\ calls[c].pc = "ns_mkdir"
    /\ \/ calls' = [calls EXCEPT ![c].pc = "ns_open"]
       \/ calls' = [calls EXCEPT ![c] = IdleCall]
    /\ UNCHANGED <<managed, processes, persisted>>
    /\ UNCHANGED <<orchVars, backupVars, nameVars, socketVars, reconcileVars, unitVars>>

\* startServer resumes from fs.open(logPath): it throws the error of open or
\* of a spawn that assigned no pid; otherwise the child runs, the entry is
\* set, and persistProcesses collects the entries and awaits fs.writeFile.
ResumeNativeOpen(c) ==
    /\ calls[c].pc = "ns_open"
    /\ \/ /\ calls' = [calls EXCEPT ![c] = IdleCall]
          /\ UNCHANGED <<managed, processes>>
       \/ \E p \in Pids :
             /\ processes[p].state = "unborn"
             /\ \A q \in Pids : q < p => processes[q].state # "unborn"
             /\ processes' = [processes EXCEPT ![p] =
                                  [id |-> calls[c].id, state |-> "alive"]]
             /\ managed' = [managed EXCEPT ![calls[c].id] = p]
             /\ calls' = [calls EXCEPT ![c].pc = "ns_persist", ![c].pid = p,
                                       ![c].entries = managed']
    /\ UNCHANGED persisted
    /\ UNCHANGED <<orchVars, backupVars, nameVars, socketVars, reconcileVars, unitVars>>

\* The file system performs the fs.writeFile of persistProcesses.
NativeWriteFile(c) ==
    /\ calls[c].pc = "ns_persist"
    /\ ~calls[c].written
    /\ persisted' = [exists |-> TRUE, entries |-> calls[c].entries]
    /\ calls' = [calls EXCEPT ![c].written = TRUE]
    /\ UNCHANGED <<managed, processes>>
    /\ UNCHANGED <<orchVars, backupVars, nameVars, socketVars, reconcileVars, unitVars>>

\* startServer resumes from persistProcesses (a failed write is caught and
\* logged) and returns the pid.
ResumeNativePersist(c) ==
    /\ calls[c].pc = "ns_persist"
    /\ calls' = [calls EXCEPT ![c] = IdleCall]
    /\ UNCHANGED <<managed, processes, persisted>>
    /\ UNCHANGED <<orchVars, backupVars, nameVars, socketVars, reconcileVars, unitVars>>

\* A spawned process ends.
ProcessDies(p) ==
    /\ processes[p].state = "alive"
    /\ processes' = [processes EXCEPT ![p].state = "exited"]
    /\ UNCHANGED <<managed, persisted, calls>>
    /\ UNCHANGED <<orchVars, backupVars, nameVars, socketVars, reconcileVars, unitVars>>

\* child.on('exit'): cleanupManaged(serverConfig.id), then the callbacks.
ChildExit(p) ==
    /\ processes[p].state = "exited"
    /\ processes' = [processes EXCEPT ![p].state = "reaped"]
    /\ managed' = cleanupManaged(managed, processes[p].id)
    /\ UNCHANGED <<persisted, calls>>
    /\ UNCHANGED <<orchVars, backupVars, nameVars, socketVars, reconcileVars, unitVars>>

NextNative ==
    \/ \E c \in NativeCallIds, id \in ServerIds : NativeStartServer(c, id)
    \/ \E c \in NativeCallIds : ResumeNativeMkdir(c)
    \/ \E c \in NativeCallIds : ResumeNativeOpen(c)
    \/ \E c \in NativeCallIds : NativeWriteFile(c)
    \/ \E c \in NativeCallIds : ResumeNativePersist(c)
    \/ \E p \in Pids : ProcessDies(p)
    \/ \E p \in Pids : ChildExit(p)

SpecNative == Init /\ [][NextNative]_vars

\* ---------------------------------------------------------------------------
\* NativeExecutionProvider.stopServer, with tryRconShutdown, forceKill and
\* waitForExit.  `kill` of a call records the tree-kill it has issued and
\* whether stopServer has polled for the exit since ("issued", "polled").
\* ---------------------------------------------------------------------------

\* this.cleanupManaged(serverId); await this.persistProcesses() up to the
\* await of fs.writeFile.
cleanupAndPersist(c) ==
    /\ managed' = cleanupManaged(managed, calls[c].id)
    /\ calls' = [calls EXCEPT ![c].pc = "ns_persist", ![c].entries = managed']

\* Entry of stopServer: nothing to stop; or the process has exited already;
\* or sendRconCommand is awaited when RCON is enabled; or tree-kill is
\* called.
NativeStopServer(c, id, rconEnabled) ==
    /\ FreeCall(c)
    /\ managed[id] # NoPid
    /\ LET call == [IdleCall EXCEPT !.op = "stop", !.id = id,
                                    !.pid = managed[id]]
       IN  IF ~isProcessAlive(managed[id])
           THEN /\ managed' = cleanupManaged(managed, id)
                /\ calls' = [calls EXCEPT ![c] =
                       [call EXCEPT !.pc = "ns_persist", !.entries = managed']]
           ELSE /\ calls' = [calls EXCEPT ![c] =
                       IF rconEnabled THEN [call EXCEPT !.pc = "sp_rcon"]
                       ELSE [call EXCEPT !.pc = "sp_kill", !.kill = "issued"]]
                /\ UNCHANGED managed
    /\ UNCHANGED <<processes, persisted>>
    /\ UNCHANGED <<orchVars, backupVars, nameVars, socketVars, reconcileVars, unitVars>>

\* tryRconShutdown resumes from sendRconCommand: on to waitForExit(pid,
\* timeoutSec * 1000); or the command was rejected, tryRconShutdown returns
\* false and stopServer calls tree-kill.
ResumeRconShutdown(c) ==
    /\ calls[c].pc = "sp_rcon"
    /\ \/ calls' = [calls EXCEPT ![c].pc = "sp_wait"]
       \/ calls' = [calls EXCEPT ![c].pc = "sp_kill", ![c].kill = "issued"]
    /\ UNCHANGED <<managed, processes, persisted>>
    /\ UNCHANGED <<orchVars, backupVars, nameVars, socketVars, reconcileVars, unitVars>>

\* A poll of the waitForExit of tryRconShutdown ends the wait: the process
\* has exited (tryRconShutdown returns true and stopServer cleans up), or the
\* stop timeout has passed, and tryRconShutdown calls tree-kill.
RconWaitEnds(c) ==
    /\ calls[c].pc = "sp_wait"
    /\ IF ~isProcessAlive(calls[c].pid)
       THEN cleanupAndPersist(c)
       ELSE /\ calls' = [calls EXCEPT ![c].pc = "sp_kill_rcon",
                                      ![c].kill = "issued"]
            /\ UNCHANGED managed
    /\ UNCHANGED <<processes, persisted>>
    /\ UNCHANGED <<orchVars, backupVars, nameVars, socketVars, reconcileVars, unitVars>>

\* forceKill resolves (an error of tree-kill is logged).  In stopServer,
\* waitForExit(pid, 10000) follows; in tryRconShutdown, `return true`
\* follows, and stopServer cleans up and persists.
ResumeForceKill(c) ==
    /\ calls[c].pc \in {"sp_kill", "sp_kill_rcon"}
    /\ IF calls[c].pc = "sp_kill"
       THEN /\ calls' = [calls EXCEPT ![c].pc = "sp_poll"]
            /\ UNCHANGED managed
       ELSE cleanupAndPersist(c)
    /\ UNCHANGED <<processes, persisted>>
    /\ UNCHANGED <<orchVars, backupVars, nameVars, socketVars, reconcileVars, unitVars>>

\* waitForExit(pid, 10000) of stopServer polls isProcessAlive; the wait ends
\* when the process is gone or the ten seconds have passed.
PollAfterKill(c) ==
    /\ calls[c].pc = "sp_poll"
    /\ \/ /\ isProcessAlive(calls[c].pid)
          /\ calls[c].kill = "issued"
          /\ calls' = [calls EXCEPT ![c].kill = "polled"]
          /\ UNCHANGED managed
       \/ /\ managed' = cleanupManaged(managed, calls[c].id)
          /\ calls' = [calls EXCEPT ![c].pc = "ns_persist",
                                    ![c].kill = "polled",
                                    ![c].entries = managed']
    /\ UNCHANGED <<processes, persisted>>
    /\ UNCHANGED <<orchVars, backupVars, nameVars, socketVars, reconcileVars, unitVars>>

NextStop ==
    \/ \E c \in NativeCallIds, id \in ServerIds : NativeStartServer(c, id)
    \/ \E c \in NativeCallIds : ResumeNativeMkdir(c)
    \/ \E c \in NativeCallIds : ResumeNativeOpen(c)
    \/ \E c \in NativeCallIds : NativeWriteFile(c)
    \/ \E c \in NativeCallIds : ResumeNativePersist(c)
    \/ \E p \in Pids : ProcessDies(p)
    \/ \E p \in Pids : ChildExit(p)
    \/ \E c \in NativeCallIds, id \in ServerIds, rconEnabled \in BOOLEAN :
           NativeStopServer(c, id, rconEnabled)
    \/ \E c \in NativeCallIds : ResumeRconShutdown(c)
    \/ \E c \in NativeCallIds : RconWaitEnds(c)
    \/ \E c \in NativeCallIds : ResumeForceKill(c)
    \/ \E c \in NativeCallIds : PollAfterKill(c)

SpecStop == Init /\ [][NextStop]_vars

\* ---------------------------------------------------------------------------
\* The file name of a backup, generated and parsed back
\* ---------------------------------------------------------------------------

\* Field values the instants are drawn from.
Years == {1970, 2026}
Months == {3, 12}
Days == {1, 14}
Hours == {9, 23}
Minutes == {0, 26}
Seconds == {53}
Milliseconds == {0, 589}

Instants ==
    { NewDate(y, mo, d, h, mi, sec, ms) :
        y \in Years, mo \in Months, d \in Days, h \in Hours, mi \in Minutes,
        sec \in Seconds, ms \in Milliseconds }

InitNames ==
    /\ InitServices
    /\ NoReconcile
    /\ NoRconCall /\ NoImport /\ NoSchedule /\ NoCopy
    /\ given \in [instant : Instants, type : BackupTypes]
    /\ fileName = <<>>
    /\ parsed = <<>>

\* createBackup: timestamp = new Date().toISOString(), then the file name.
GenerateFileName ==
    /\ fileName = <<>>
    /\ fileName' = getBackupFileName(toISOString(given.instant), given.type)
    /\ UNCHANGED <<given, parsed>>
    /\ UNCHANGED <<orchVars, nativeVars, backupVars, socketVars,
                   reconcileVars, unitVars>>

\* listBackups: each file name of the directory is parsed.
ParseFileName ==
    /\ fileName # <<>>
    /\ parsed = <<>>
    /\ parsed' = parseBackupFileName(fileName)
    /\ UNCHANGED <<given, fileName>>
    /\ UNCHANGED <<orchVars, nativeVars, backupVars, socketVars,
                   reconcileVars, unitVars>>

NextNames ==
    \/ GenerateFileName
    \/ ParseFileName

SpecNames == InitNames /\ [][NextNames]_vars

\* ---------------------------------------------------------------------------
\* The backup API and the backup engine await by await: the routes of
\* routes/backup.routes.ts, initiateUpdate and deleteServer that meet them, and
\* BackupService running one awaited file-system call per step, so that two
\* calls on the same backup directory interleave as they do in the process.
\* ---------------------------------------------------------------------------

\* The timestamps a DELETE /servers/:id/backups/:timestamp may name.
Timestamps == { toISOString(Today(ms)) : ms \in 1..MaxClock }

\* POST /servers/:id/backups: await backupService.createBackup(id, 'manual').
createBackupRoute(m, t) == Await(m, t, "route_backup")

\* DELETE /servers/:id/backups/:timestamp: await backupService.deleteBackup.
deleteBackupRoute(m, t, timestamp) ==
    [Await(m, t, "route_delete") EXCEPT
         !.tasks[t].call = [NoCall EXCEPT !.phase = "delete",
                                          !.toDelete = <<timestamp>>]]

\* POST /servers/:id/backups/:timestamp/restore: the checks on the server
\* state, then await backupService.restoreBackup(id, timestamp).
restoreBackupRoute(m, t) ==
    LET id == m.tasks[t].id
        state == m.servers[id]
    IN  IF ~state.present THEN Return(m, t, "state_error")
        ELSE IF state.status \in {"running", "starting"}
        THEN Return(m, t, "state_error")
        ELSE IF state.updateStage # "none" THEN Return(m, t, "state_error")
        ELSE Await(m, t, "route_restore")

\* reply.status(201) or reply.status(204), or the error handler's reply.
resumeBackupRoute(m, t) ==
    IF Threw(m, t) THEN Return(m, t, "error") ELSE Return(m, t, "ok")

RequestBackup(t, id) ==
    /\ Idle(t)
    /\ Commit(createBackupRoute(NewTask(t, "backup", id), t))
    /\ UNCHANGED <<allocated, sidecar, container, exitEvents>>

RequestDeleteBackup(t, id, timestamp) ==
    /\ Idle(t)
    /\ Commit(deleteBackupRoute(NewTask(t, "delete_backup", id), t, timestamp))
    /\ UNCHANGED <<allocated, sidecar, container, exitEvents>>

ResumeBackupRoute(t) ==
    /\ Resumes(t, {"route_backup", "route_delete"})
    /\ Commit(resumeBackupRoute(Mem, t))

\* The file system carries out the call BackupService awaits for task t, and
\* the method runs on to its next await.
BackupEngine(t) ==
    /\ tasks[t].pc \in BackupPcs
    /\ tasks[t].resp = "none"
    /\ LET id == tasks[t].id
       IN  \E o \in backupStep(tasks[t].call, BackupTypeAt(tasks[t].pc),
                                sidecar[id], backupDir[id], Today(clock)) :
             /\ backupDir' = [backupDir EXCEPT ![id] = o.dir]
             /\ tasks' = Renamed([tasks EXCEPT ![t].call = o.call,
                                               ![t].resp = o.resp])
    /\ out' = <<>>
    /\ log' = <<>>
    /\ ret' = NoRet
    /\ UNCHANGED <<servers, allocated, sidecar, container, exitEvents>>
    /\ UNCHANGED <<nativeVars, clock, nameVars, socketVars, reconcileVars, unitVars>>

\* The file system carries out a call of the file store (writeYaml,
\* copyDirectory, deleteDirectory).
FileStore(t) ==
    /\ tasks[t].pc \notin BackupPcs
    /\ FileSystem(t)

\* A millisecond passes.
Tick ==
    /\ clock < MaxClock
    /\ clock' = clock + 1
    /\ out' = <<>>
    /\ log' = <<>>
    /\ ret' = NoRet
    /\ UNCHANGED <<servers, allocated, sidecar, container, exitEvents, tasks>>
    /\ UNCHANGED <<nativeVars, backupDir, nameVars, socketVars, reconcileVars, unitVars>>

NextBackup ==
    \/ \E id \in ServerIds : ImportServer(id)
    \/ \E t \in TaskIds, id \in ServerIds : RequestBackup(t, id)
    \/ \E t \in TaskIds, id \in ServerIds, timestamp \in Timestamps :
           RequestDeleteBackup(t, id, timestamp)
    \/ \E t \in TaskIds, id \in ServerIds : RequestInitiateUpdate(t, id)
    \/ \E t \in TaskIds, id \in ServerIds : RequestDelete(t, id)
    \/ \E t \in TaskIds : BackupEngine(t)
    \/ \E t \in TaskIds : FileStore(t)
    \/ \E t \in TaskIds : DockerDaemon(t)
    \/ \E t \in TaskIds : ResumeBackupRoute(t)
    \/ \E t \in TaskIds : ResumeInitiateUpdate(t)
    \/ \E t \in TaskIds : ResumeRemoveContainer(t)
    \/ \E t \in TaskIds : ResumeDeleteServer(t)
    \/ Tick

SpecBackup == Init /\ [][NextBackup]_vars

\* ---------------------------------------------------------------------------
\* The push channel: WebSocketService and the route that feeds it.  The
\* optional serverId of a message is <<id>>, or <<>> when it is absent.
\* ---------------------------------------------------------------------------

ServerIdOptions == {<<>>} \cup { <<id>> : id \in Topics }

\* clients.get(clientId) is defined.
HasClient(cs, clientId) == \E i \in 1..Len(cs) : cs[i].id = clientId

\* addClient: clients.set of a fresh uuid appends to the Map.
addClient(cs, clientId) ==
    Append(cs, [id |-> clientId, subscriptions |-> {},
                subscribedToAll |-> FALSE])

removeClient(cs, clientId) == SelectSeq(cs, LAMBDA client : client.id # clientId)

subscribe(cs, clientId, serverId) ==
    [i \in 1..Len(cs) |->
        IF cs[i].id # clientId THEN cs[i]
        ELSE IF serverId # <<>>
        THEN [cs[i] EXCEPT !.subscriptions = @ \cup {serverId[1]}]
        ELSE [cs[i] EXCEPT !.subscribedToAll = TRUE]]

unsubscribe(cs, clientId, serverId) ==
    [i \in 1..Len(cs) |->
        IF cs[i].id # clientId THEN cs[i]
        ELSE IF serverId # <<>>
        THEN [cs[i] EXCEPT !.subscriptions = @ \ {serverId[1]}]
        ELSE [cs[i] EXCEPT !.subscribedToAll = FALSE, !.subscriptions = {}]]

\* client.subscribedToAll || client.subscriptions.has(serverId)
Matches(client, serverId) ==
    client.subscribedToAll \/ serverId \in client.subscriptions

\* The clients the loop has called socket.send for when it reaches index i,
\* given that a send that throws ends the loop (`ends`) or is caught.
RECURSIVE Tried(_, _, _, _, _)
Tried(cs, sk, serverId, i, ends) ==
    IF i > Len(cs) THEN {}
    ELSE IF ~Matches(cs[i], serverId) THEN Tried(cs, sk, serverId, i + 1, ends)
    ELSE IF ends /\ sk[cs[i].id] = "broken" THEN {cs[i].id}
    ELSE {cs[i].id} \cup Tried(cs, sk, serverId, i + 1, ends)

\* Faulty variant: the exception of socket.send is not caught, so the loop
\* ends at the first send that throws.
broadcastToSubscribersUncaught(cs, sk, serverId, message) ==
    LET tried == Tried(cs, sk, serverId, 1, TRUE)
    IN  [message |-> message, tried |-> tried,
         reached |-> { c \in tried : sk[c] = "open" }]

\* broadcastToSubscribers: socket.send for every client of the Map that
\* matches; a send that throws is logged and the loop goes on.
broadcastToSubscribers(cs, sk, serverId, message) ==
    LET tried == Tried(cs, sk, serverId, 1, FALSE)
    IN  [message |-> message, tried |-> tried,
         reached |-> { c \in tried : sk[c] = "open" }]

\* A client connects: websocketRoutes calls addClient(socket).
Connect(c) ==
    /\ ~HasClient(clients, c)
    /\ clients' = addClient(clients, c)
    /\ sockets' = [sockets EXCEPT ![c] = "open"]
    /\ sent' = NoBroadcast
    /\ UNCHANGED <<orchVars, nativeVars, backupVars, nameVars, reconcileVars, unitVars>>

\* socket.on('message') with a subscribe message.
Subscribe(c, serverId) ==
    /\ HasClient(clients, c)
    /\ clients' = subscribe(clients, c, serverId)
    /\ sent' = NoBroadcast
    /\ UNCHANGED sockets
    /\ UNCHANGED <<orchVars, nativeVars, backupVars, nameVars, reconcileVars, unitVars>>

\* socket.on('message') with an unsubscribe message.
Unsubscribe(c, serverId) ==
    /\ HasClient(clients, c)
    /\ clients' = unsubscribe(clients, c, serverId)
    /\ sent' = NoBroadcast
    /\ UNCHANGED sockets
    /\ UNCHANGED <<orchVars, nativeVars, backupVars, nameVars, reconcileVars, unitVars>>

\* The connection of a client fails under it: its sends throw from now on.
SocketBreaks(c) ==
    /\ HasClient(clients, c)
    /\ sockets[c] = "open"
    /\ sockets' = [sockets EXCEPT ![c] = "broken"]
    /\ sent' = NoBroadcast
    /\ UNCHANGED clients
    /\ UNCHANGED <<orchVars, nativeVars, backupVars, nameVars, reconcileVars, unitVars>>

\* socket.on('close') and socket.on('error'): removeClient(clientId).
SocketCloses(c) ==
    /\ HasClient(clients, c)
    /\ clients' = removeClient(clients, c)
    /\ sent' = NoBroadcast
    /\ UNCHANGED sockets
    /\ UNCHANGED <<orchVars, nativeVars, backupVars, nameVars, reconcileVars, unitVars>>

\* A service publishes an event for server id.
Broadcast(id, message) ==
    /\ message.serverId = id
    /\ sent' = broadcastToSubscribers(clients, sockets, id, message)
    /\ UNCHANGED <<clients, sockets>>
    /\ UNCHANGED <<orchVars, nativeVars, backupVars, nameVars, reconcileVars, unitVars>>

\* The events published in this specification.
Events ==
    { StatusMsg(id, "running", Now, "none") : id \in Topics }
        \cup { UpdateMsg(id, "deleted") : id \in Topics }

NextSockets ==
    \/ \E c \in ClientIds : Connect(c)
    \/ \E c \in ClientIds, serverId \in ServerIdOptions : Subscribe(c, serverId)
    \/ \E c \in ClientIds, serverId \in ServerIdOptions :
           Unsubscribe(c, serverId)
    \/ \E c \in ClientIds : SocketBreaks(c)
    \/ \E c \in ClientIds : SocketCloses(c)
    \/ \E id \in Topics, message \in Events : Broadcast(id, message)

SpecSockets == Init /\ [][NextSockets]_vars

\* ---------------------------------------------------------------------------
\* NativeExecutionProvider.reconcile: at startup the entry of
\* native-processes.json is re-adopted when its pid is alive and
\* verifyProcessName accepts the output of tasklist for that pid.  Names are
\* sequences of characters.
\* ---------------------------------------------------------------------------

\* The programs that may hold a pid on the host, by image name.
Images == {"srv.exe", "SRV.EXE", "xsrv.exe", "cmd.exe"}

\* path.basename(template.execution.executable) of the servers' templates.
ProcessNames == {"srv.exe", "cmd.exe"}

NameChars(name) ==
    CASE name = "srv.exe" -> <<"s", "r", "v", ".", "e", "x", "e">>
      [] name = "SRV.EXE" -> <<"S", "R", "V", ".", "E", "X", "E">>
      [] name = "xsrv.exe" -> <<"x", "s", "r", "v", ".", "e", "x", "e">>
      [] name = "cmd.exe" -> <<"c", "m", "d", ".", "e", "x", "e">>

\* String.prototype.toLowerCase
LowerChar(ch) ==
    CASE ch = "S" -> "s" [] ch = "R" -> "r" [] ch = "V" -> "v"
      [] ch = "E" -> "e" [] ch = "X" -> "x" [] ch = "C" -> "c"
      [] ch = "K" -> "k"
      [] OTHER -> ch

toLowerCase(str) == [i \in 1..Len(str) |-> LowerChar(str[i])]

\* String.prototype.includes
includes(str, sub) ==
    \E i \in 1..(Len(str) - Len(sub) + 1) :
        SubSeq(str, i, i + Len(sub) - 1) = sub

\* The stdout of `tasklist /FI "PID eq <pid>" /FO CSV /NH`: one CSV line
\* "image","pid","session name","session#","mem usage" for the process at
\* pid, nothing when there is none.
tasklist(table, pid) ==
    IF table[pid] = <<>> THEN <<>>
    ELSE <<"\"">> \o table[pid] \o <<"\"", ",", "\"">> \o Pad(pid, 1)
             \o <<"\"", ",", "\"", "C", "o", "n", "s", "o", "l", "e", "\"",
                  ",", "\"", "1", "\"", ",", "\"", "8", " ", "K", "\"">>

\* process.kill(pid, 0) succeeds.
processAlive(table, pid) == table[pid] # <<>>

verifyProcessName(table, pid, expectedName) ==
    LET stdout == tasklist(table, pid)
    IN  IF stdout = <<>> THEN FALSE
        ELSE includes(toLowerCase(stdout), toLowerCase(expectedName))

\* getProcessStatus(serverId).running
getProcessStatus(mg, table, id) ==
    mg[id] # NoPid /\ processAlive(table, mg[id])

\* The data directory at startup: native-processes.json with one entry or
\* missing, and whatever now runs on the host.
InitReconcile ==
    /\ InitServices
    /\ NoRconCall /\ NoImport /\ NoSchedule /\ NoCopy
    /\ given = <<>>
    /\ fileName = <<>>
    /\ parsed = <<>>
    /\ record \in {<<>>} \cup
           { [serverId |-> id, pid |-> p, processName |-> NameChars(n)] :
                 id \in ServerIds, p \in Pids, n \in ProcessNames }
    /\ osTable \in [Pids -> {<<>>} \cup { NameChars(n) : n \in Images }]
    /\ reconciling = "read"

ReconcileStep(pc) ==
    /\ reconciling = pc
    /\ UNCHANGED <<record, osTable>>
    /\ UNCHANGED <<orchVars, processes, calls, backupVars, nameVars, socketVars, unitVars>>

\* fs.readFile(persistPath) and JSON.parse: return when there is no file.
ReconcileRead ==
    /\ ReconcileStep("read")
    /\ reconciling' = IF record = <<>> THEN "done" ELSE "alive"
    /\ UNCHANGED <<managed, persisted>>

\* await this.isProcessAlive(entry.pid)
ReconcileAlive ==
    /\ ReconcileStep("alive")
    /\ reconciling' = IF processAlive(osTable, record.pid) THEN "verify"
                      ELSE "persist"
    /\ UNCHANGED <<managed, persisted>>

\* await this.verifyProcessName(entry.pid, entry.processName), then
\* this.managed.set(entry.serverId, ...) when the name is accepted.
ReconcileVerify ==
    /\ ReconcileStep("verify")
    /\ managed' = IF verifyProcessName(osTable, record.pid, record.processName)
                  THEN [managed EXCEPT ![record.serverId] = record.pid]
                  ELSE managed
    /\ reconciling' = "persist"
    /\ UNCHANGED persisted

\* await this.persistProcesses()
ReconcilePersist ==
    /\ ReconcileStep("persist")
    /\ persisted' = [exists |-> TRUE, entries |-> managed]
    /\ reconciling' = "done"
    /\ UNCHANGED managed

\* A program of the host exits, or one starts and is given a free pid.
ProgramExits(p) ==
    /\ osTable[p] # <<>>
    /\ osTable' = [osTable EXCEPT ![p] = <<>>]
    /\ UNCHANGED <<record, reconciling>>
    /\ UNCHANGED <<orchVars, nativeVars, backupVars, nameVars, socketVars, unitVars>>

ProgramStarts(p, image) ==
    /\ osTable[p] = <<>>
    /\ osTable' = [osTable EXCEPT ![p] = NameChars(image)]
    /\ UNCHANGED <<record, reconciling>>
    /\ UNCHANGED <<orchVars, nativeVars, backupVars, nameVars, socketVars, unitVars>>

NextReconcile ==
    \/ ReconcileRead
    \/ ReconcileAlive
    \/ ReconcileVerify
    \/ ReconcilePersist
    \/ \E p \in Pids : ProgramExits(p)
    \/ \E p \in Pids, image \in Images : ProgramStarts(p, image)

SpecReconcile == InitReconcile /\ [][NextReconcile]_vars

\* ---------------------------------------------------------------------------
\* sendRconCommand: one call, from socket.connect to the settling of the
\* promise it returns.  A data event carries the bytes of some packets, the
\* last of which may be cut short; responseBuffer keeps the incomplete
\* packet until its rest arrives with the next event.
\* ---------------------------------------------------------------------------

SERVERDATA_AUTH_RESPONSE == 2
SERVERDATA_RESPONSE_VALUE == 0
authId == 1
commandId == 2

\* What the peer may send: the answer to the password (id -1 when it is
\* wrong), the empty RESPONSE_VALUE that precedes it, the answer to the
\* command.
Packets ==
    { [type |-> SERVERDATA_AUTH_RESPONSE, id |-> authId],
      [type |-> SERVERDATA_AUTH_RESPONSE, id |-> -1],
      [type |-> SERVERDATA_RESPONSE_VALUE, id |-> authId],
      [type |-> SERVERDATA_RESPONSE_VALUE, id |-> commandId] }

\* The packets of one data event.
Chunks == { <<a>> : a \in Packets } \cup { <<a, b>> : a, b \in Packets }

\* resolve / reject: a settled promise stays as it is.
settle(r, how) ==
    IF r.promise = "pending" THEN [r EXCEPT !.promise = how] ELSE r

\* socket.on('data'): the while loop over the packets of the buffer.
RECURSIVE onData(_, _)
onData(r, packets) ==
    IF packets = <<>> THEN r
    ELSE LET packet == Head(packets)
         IN  IF ~r.authenticated
             THEN IF packet.type = SERVERDATA_AUTH_RESPONSE
                  THEN IF packet.id = -1
                       THEN settle([r EXCEPT !.timer = FALSE,
                                             !.socket = "destroyed"],
                                   "rejected")
                       ELSE onData([r EXCEPT !.authenticated = TRUE,
                                             !.wrote = Append(@, "command")],
                                   Tail(packets))
                  ELSE onData(r, Tail(packets))
             ELSE IF /\ packet.type = SERVERDATA_RESPONSE_VALUE
                     /\ packet.id = commandId
                  THEN settle([r EXCEPT !.timer = FALSE,
                                        !.socket = "destroyed"], "resolved")
                  ELSE onData(r, Tail(packets))

\* socket.on('close')
onClose(r) ==
    LET r1 == [r EXCEPT !.timer = FALSE, !.socket = "closed"]
    IN  IF r.authenticated THEN settle(r1, "resolved") ELSE r1

\* The executor of the promise has run: the timer is armed, the handlers
\* are registered and socket.connect(port, host) is called.
InitRcon ==
    /\ InitServices
    /\ NoReconcile
    /\ given = <<>> /\ fileName = <<>> /\ parsed = <<>>
    /\ NoImport /\ NoSchedule /\ NoCopy
    /\ rcon = [socket |-> "connecting", authenticated |-> FALSE,
               timer |-> TRUE, promise |-> "pending", wrote |-> <<>>,
               received |-> 0, responseBuffer |-> <<>>]

RconStep ==
    UNCHANGED <<orchVars, nativeVars, backupVars, nameVars, socketVars,
                reconcileVars, importVars, cronVars, copyVars>>

\* socket.on('connect'): the auth packet is written.
RconConnect ==
    /\ rcon.socket = "connecting"
    /\ rcon' = [rcon EXCEPT !.socket = "open", !.wrote = <<"auth">>]
    /\ RconStep

RconData(packets, cut) ==
    /\ rcon.socket = "open"
    /\ rcon.received + Len(packets) <= MaxPackets
    /\ LET arrived == rcon.responseBuffer \o packets
           complete == IF cut THEN SubSeq(arrived, 1, Len(arrived) - 1)
                       ELSE arrived
           rest == IF cut THEN <<arrived[Len(arrived)]>> ELSE <<>>
       IN  rcon' = onData([rcon EXCEPT !.received = @ + Len(packets),
                                       !.responseBuffer = rest], complete)
    /\ RconStep

\* socket.on('error'): connection refused or reset; 'close' follows.
RconError ==
    /\ rcon.socket \in {"connecting", "open"}
    /\ rcon' = settle([rcon EXCEPT !.timer = FALSE, !.socket = "errored"],
                      "rejected")
    /\ RconStep

\* The socket closes: the peer ended the connection, or the socket was
\* destroyed or had an error.
RconClose ==
    /\ rcon.socket \in {"open", "errored", "destroyed"}
    /\ rcon' = onClose(rcon)
    /\ RconStep

\* The timer set with setTimeout(..., timeoutMs) fires.
RconTimeout ==
    /\ rcon.timer
    /\ rcon' = settle([rcon EXCEPT !.timer = FALSE,
                                   !.socket = IF @ = "closed" THEN @
                                              ELSE "destroyed"],
                      "rejected")
    /\ RconStep

NextRcon ==
    \/ RconConnect
    \/ \E packets \in Chunks, cut \in BOOLEAN : RconData(packets, cut)
    \/ RconError
    \/ RconClose
    \/ RconTimeout

\* An armed timer fires when its delay has passed.
SpecRcon == InitRcon /\ [][NextRcon]_vars /\ WF_vars(RconTimeout)

\* ---------------------------------------------------------------------------
\* importServer: the port list stored in the server's configuration
\* ---------------------------------------------------------------------------

\* The container ports and protocols of the templates' default ports.
PortNumbers == {7777, 27015}
Protocols == {"tcp", "udp"}
TemplatePorts == [container : PortNumbers, protocol : Protocols]
PortMappings ==
    [host : PortNumbers, container : PortNumbers, protocol : Protocols]

\* template.defaultPorts?.map((p, index) => ({host: p.container + index,
\* container: p.container, protocol: p.protocol})) || []
\* (`index` counts from 0 in the source, from 1 here.)
synthesise(templatePorts) ==
    IF templatePorts = <<>> THEN <<>>
    ELSE [index \in 1..Len(templatePorts[1]) |->
             [host |-> templatePorts[1][index].container + (index - 1),
              container |-> templatePorts[1][index].container,
              protocol |-> templatePorts[1][index].protocol]]

\* ports: request.ports || defaultPorts (an array, even an empty one, is
\* truthy).
storedPorts(templatePorts, requested) ==
    IF requested = <<>> THEN synthesise(templatePorts) ELSE requested[1]

\* A template with up to two default ports and an import request that
\* gives one port mapping or none.
InitImport ==
    /\ InitServices
    /\ NoReconcile
    /\ given = <<>> /\ fileName = <<>> /\ parsed = <<>>
    /\ NoRconCall /\ NoSchedule /\ NoCopy
    /\ defaultPorts \in {<<>>, << <<>> >>}
                        \cup { << <<a>> >> : a \in TemplatePorts }
                        \cup { << <<a, b>> >> : a, b \in TemplatePorts }
    /\ requestPorts \in {<<>>} \cup { << <<a>> >> : a \in PortMappings }
    /\ ports = <<>>

ImportPorts ==
    /\ ports = <<>>
    /\ ports' = <<storedPorts(defaultPorts, requestPorts)>>
    /\ UNCHANGED <<defaultPorts, requestPorts>>
    /\ UNCHANGED <<orchVars, nativeVars, backupVars, nameVars, socketVars,
                   reconcileVars, rconVars, cronVars, copyVars>>

NextImport == ImportPorts

SpecImport == InitImport /\ [][NextImport]_vars

\* ---------------------------------------------------------------------------
\* MaintenanceService: the cron task of runMaintenance and the daily task
\* that re-arms it.  Time advances by the hour; months are counted from 0 as
\* in Date.UTC.
\* ---------------------------------------------------------------------------

\* Date.UTC(year, month, day) / 86400000: days since 1970-01-01.
DateUTC(year, month, day) ==
    LET m == month + 1
        y == IF m <= 2 THEN year - 1 ELSE year
        era == y \div 400
        yoe == y - era * 400
        mp == (m + 9) % 12
        doy == (153 * mp + 2) \div 5 + day - 1
        doe == yoe * 365 + yoe \div 4 - yoe \div 100 + doy
    IN  era * 146097 + doe - 719468

\* Date.prototype.getUTCDay: 0 is Sunday (1970-01-01 was a Thursday).
getUTCDay(date) == (date + 4) % 7

\* The while loop of getNthSundayOfMonth from `date` on, with sundayCount
\* Sundays counted so far.
RECURSIVE nthSundayFrom(_, _, _)
nthSundayFrom(date, sundayCount, n) ==
    IF getUTCDay(date) = 0 /\ sundayCount + 1 = n THEN date
    ELSE nthSundayFrom(date + 1,
                       IF getUTCDay(date) = 0 THEN sundayCount + 1
                       ELSE sundayCount, n)

getNthSundayOfMonth(year, month, n) ==
    nthSundayFrom(DateUTC(year, month, 1), 0, n)

\* Hours since 1970-01-01T00:00Z.
HoursSinceEpoch(day, hour) == day * 24 + hour

\* isEasternDaylightTime() called at instant w.
isEasternDaylightTime(w) ==
    LET marchSecondSunday == HoursSinceEpoch(getNthSundayOfMonth(w.year, 2, 2), 7)
        novemberFirstSunday == HoursSinceEpoch(getNthSundayOfMonth(w.year, 10, 1), 6)
    IN  /\ HoursSinceEpoch(w.day, w.hour) >= marchSecondSunday
        /\ HoursSinceEpoch(w.day, w.hour) < novemberFirstSunday

get4AMEasternUTCHour(w) == IF isEasternDaylightTime(w) THEN 8 ELSE 9

\* The years followed, and in each the two days on which the clocks change
\* (2026-03-08, 2026-11-01, 2027-03-14, 2027-11-07).
ScheduleYears == {2026, 2027}
ClockChanges ==
    [y \in ScheduleYears |->
        IF y = 2026 THEN [spring |-> DateUTC(2026, 2, 8),
                          fall |-> DateUTC(2026, 10, 1)]
        ELSE [spring |-> DateUTC(2027, 2, 14),
              fall |-> DateUTC(2027, 10, 7)]]

\* initialize() runs at 00:00 UTC of the day before a clock change.
InitSchedule ==
    /\ InitServices
    /\ NoReconcile
    /\ given = <<>> /\ fileName = <<>> /\ parsed = <<>>
    /\ NoRconCall /\ NoImport /\ NoCopy
    /\ \E y \in ScheduleYears, change \in {"spring", "fall"} :
          wallClock = [year |-> y, day |-> ClockChanges[y][change] - 1,
                       hour |-> 0, elapsed |-> 0]
    /\ utcHour = get4AMEasternUTCHour(wallClock)
    /\ fired = [count |-> 0, hour |-> 0]

ScheduleStep ==
    UNCHANGED <<orchVars, nativeVars, backupVars, nameVars, socketVars,
                reconcileVars, rconVars, importVars, copyVars>>

NextHour == [wallClock EXCEPT !.hour = @ + 1]

\* 00:00 UTC: the cron task '0 0 * * *' calls scheduleMaintenance, which
\* stops scheduledTask and schedules `0 ${utcHour} * * *`.
Midnight ==
    /\ wallClock.hour = 23
    /\ wallClock.elapsed + 1 < MaxDays
    /\ wallClock' = [wallClock EXCEPT !.day = @ + 1, !.hour = 0,
                                      !.elapsed = @ + 1]
    /\ utcHour' = get4AMEasternUTCHour(wallClock')
    /\ fired' = [count |-> 0, hour |-> 0]
    /\ ScheduleStep

\* utcHour:00 UTC: scheduledTask calls runMaintenance.
MaintenanceFires ==
    /\ wallClock.hour < 23
    /\ NextHour.hour = utcHour
    /\ wallClock' = NextHour
    /\ fired' = [count |-> fired.count + 1, hour |-> wallClock'.hour]
    /\ UNCHANGED utcHour
    /\ ScheduleStep

\* Any other hour begins.
HourPasses ==
    /\ wallClock.hour < 23
    /\ NextHour.hour # utcHour
    /\ wallClock' = NextHour
    /\ UNCHANGED <<utcHour, fired>>
    /\ ScheduleStep

NextSchedule ==
    \/ Midnight
    \/ MaintenanceFires
    \/ HourPasses

SpecSchedule == InitSchedule /\ [][NextSchedule]_vars

\* ---------------------------------------------------------------------------
\* copyDirectory(src, dest) on trees.  A tree gives every path what is
\* there: "none", "dir", or the content of a file.
\* ---------------------------------------------------------------------------

EntryNames == <<"a", "b">>
Contents == {"v1", "v2"}
Paths ==
    { <<EntryNames[i]>> : i \in 1..Len(EntryNames) }
        \cup { <<EntryNames[i], EntryNames[j]>> :
                   i, j \in 1..Len(EntryNames) }

IsFile(entry) == entry \in Contents

\* Trees of depth two: an entry exists only inside a directory.
Trees ==
    { t \in [Paths -> {"none", "dir"} \cup Contents] :
          \A p \in Paths :
              Len(p) = 2 => /\ t[p] # "dir"
                            /\ t[p] # "none" => t[<<p[1]>>] = "dir" }

Copying(tree, ok) == [tree |-> tree, ok |-> ok]

\* fs.copyFile(srcPath, destPath): replaces a file, fails on a directory.
copyFile(src, tree, p) ==
    IF tree[p] = "dir" THEN Copying(tree, FALSE)
    ELSE Copying([tree EXCEPT ![p] = src[p]], TRUE)

\* Faulty variant: the destination is made a mirror of the source.
copyDirectoryMirrored(src, dest) == Copying(src, TRUE)

\* copyDirectory(path.join(src, ...p), path.join(dest, ...p)): fs.mkdir
\* with recursive: true (fails when a file is in the way), then the loop
\* over the entries readdir lists; the first error ends the copy.
RECURSIVE copyDirectoryAt(_, _, _)
RECURSIVE copyEntries(_, _, _, _)
copyEntries(src, c, p, names) ==
    IF names = <<>> \/ ~c.ok THEN c
    ELSE LET entry == Append(p, Head(names))
             next == IF src[entry] = "none" THEN c
                     ELSE IF src[entry] = "dir"
                     THEN copyDirectoryAt(src, c.tree, entry)
                     ELSE copyFile(src, c.tree, entry)
         IN  copyEntries(src, next, p, Tail(names))

copyDirectoryAt(src, tree, p) ==
    IF p = <<>> THEN copyEntries(src, Copying(tree, TRUE), p, EntryNames)
    ELSE IF IsFile(tree[p]) THEN Copying(tree, FALSE)
    ELSE LET made == Copying([tree EXCEPT ![p] = "dir"], TRUE)
         IN  IF Len(p) < 2 THEN copyEntries(src, made, p, EntryNames)
             ELSE made

copyDirectoryTree(src, dest) == copyDirectoryAt(src, dest, <<>>)

InitCopy ==
    /\ InitServices
    /\ NoReconcile
    /\ given = <<>> /\ fileName = <<>> /\ parsed = <<>>
    /\ NoRconCall /\ NoImport /\ NoSchedule
    /\ source \in Trees
    /\ destination \in Trees
    /\ copied = "no"

\* await copyDirectory(sourcePath, serverPath)
CopyDirectory ==
    /\ copied = "no"
    /\ LET c == copyDirectoryTree(source, destination)
       IN  /\ destination' = c.tree
           /\ copied' = IF c.ok THEN "ok" ELSE "error"
    /\ UNCHANGED source
    /\ UNCHANGED <<orchVars, nativeVars, backupVars, nameVars, socketVars,
                   reconcileVars, rconVars, importVars, cronVars>>

NextCopy == CopyDirectory

SpecCopy == InitCopy /\ [][NextCopy]_vars

\* ---------------------------------------------------------------------------
\* Properties
\* ---------------------------------------------------------------------------

\* The operations the serialization requirement names (restore is a route of
\* the backup API and is not part of this state).
TransitionOps ==
    {"start", "stop", "restart", "initiate", "apply", "cancel", "ack", "delete"}

\* The handler answered the request on entry with the given error.
Rejected(m, result) == m.ret.result = result /\ m.out = <<>>

\* Task t is a transition that has begun and not yet returned.
InFlight(t) == tasks[t].op \in TransitionOps

\* C1: while a transition is in flight for a server, no second transition on
\* the same server is executing: a second request waits or is rejected, so
\* two transitions on one server are never in flight together.
C1_Serialized ==
    \A t, u \in TaskIds :
        (t # u /\ InFlight(t) /\ InFlight(u)) => tasks[t].id # tasks[u].id

\* C2: for every server in the Map, updateStage # none implies that the
\* status is updating, stopped or error (never starting, running, stopping).
C2_StageImpliesStatus ==
    \A id \in ServerIds :
        (servers[id].present /\ servers[id].updateStage # "none")
            => servers[id].status \in {"updating", "stopped", "error"}

\* C3: when a transition on a server (or a maintenance stop) has just
\* returned, with success or with failure, the status is running exactly
\* when the daemon reports the server's container running.  Stated for the
\* quiet case only: no other request is in flight and no exit notification
\* is still undelivered when the transition returns.
C3_StatusMatchesBackend ==
    (/\ ret.op \in TransitionOps \cup {"maint"}
     /\ ret.result \in Completions
     /\ servers[ret.id].present
     /\ \A t \in TaskIds : tasks[t].op = "idle"
     /\ exitEvents[ret.id] = 0)
        => (servers[ret.id].status = "running" <=> container[ret.id] = "running")

\* C4: for every server id at most one process spawned for it is alive at
\* any time, whatever provider starts overlap.
C4_SingleLiveness ==
    \A id \in ServerIds :
        Cardinality({ p \in Pids : /\ processes[p].id = id
                                   /\ processes[p].state = "alive" }) <= 1

\* C5: when an exit callback is delivered for a server whose status is
\* running or starting, the status becomes error, startedAt is cleared and
\* exactly one server_status(error) message is published; when the status is
\* stopping, updating or stopped, nothing changes and nothing is published.
C5_ExitCallback ==
    [][\A id \in ServerIds :
          (DeliverExit(id) /\ servers[id].present) =>
              /\ servers[id].status \in {"running", "starting"} =>
                    /\ servers' = [servers EXCEPT ![id].status = "error",
                                                  ![id].startedAt = Undef]
                    /\ out' = <<StatusMsg(id, "error", Undef, Undef)>>
              /\ servers[id].status \in {"stopping", "updating", "stopped"} =>
                    /\ servers' = servers
                    /\ out' = <<>>]_vars

\* An exit callback has just turned a running or starting server to error.
C5_Witness ==
    \E id \in ServerIds :
        /\ servers[id].present /\ servers[id].status = "error"
        /\ servers[id].startedAt = Undef
        /\ out = <<StatusMsg(id, "error", Undef, Undef)>>
        /\ ret = NoRet

\* C6: a server whose status is error keeps it until acknowledgeCrash
\* succeeds: no other operation on the server (start, stop, restart, the
\* update operations, maintenance, a further exit callback) moves the status
\* away from error.  (A restart of the backend process rebuilds the state
\* and is not an operation on the server.)
C6_ErrorUntilAcknowledged ==
    [][\A id \in ServerIds :
          (/\ servers[id].present /\ servers[id].status = "error"
           /\ servers'[id].present /\ servers'[id].status # "error"
           /\ ~ProcessRestart)
              => ret' = [op |-> "ack", id |-> id, result |-> "ok"]]_vars

\* The step sets the status of server id to error.
BecomesError(id) ==
    /\ servers'[id].present /\ servers'[id].status = "error"
    /\ servers[id].status # "error"

\* The step delivers an exit callback for a starting or running server.
ExitWhileUp(id) ==
    /\ DeliverExit(id)
    /\ servers[id].status \in {"starting", "running"}

C8_AcknowledgeCrash ==
    [][/\ \A t \in TaskIds, id \in ServerIds :
             (/\ RequestAcknowledgeCrash(t, id)
              /\ servers[id].present /\ servers[id].status # "error")
                 => /\ Rejected(acknowledgeCrash(NewTask(t, "ack", id), t),
                                "state_error")
                    /\ servers' = servers /\ tasks' = tasks
                    /\ out' = <<>>
       /\ \A id \in ServerIds :
             ret' = [op |-> "ack", id |-> id, result |-> "ok"]
                 => /\ container'[id] = "none"
                    /\ servers'[id].status = "stopped"
                    /\ out' = <<StatusMsg(id, "stopped", Undef, Undef)>>]_vars

\* C9: a start request on a server that is not (stopped, updateStage none)
\* is rejected with a state error, changes no status and publishes nothing.
C9_StartOnlyWhenStopped ==
    [][\A t \in TaskIds, id \in ServerIds :
          (/\ RequestStart(t, id)
           /\ servers[id].present
           /\ ~(servers[id].status = "stopped" /\ servers[id].updateStage = "none"))
              => /\ Rejected(startServer(NewTask(t, "start", id), t),
                             "state_error")
                 /\ servers' = servers /\ tasks' = tasks
                 /\ out' = <<>>]_vars

\* C10: a delete request on a server that is not (stopped or error,
\* updateStage none) is rejected: it returns a state error at once and
\* starts no removal.
C10_DeleteOnlyWhenAtRest ==
    [][\A t \in TaskIds, id \in ServerIds :
          (/\ RequestDelete(t, id)
           /\ servers[id].present
           /\ ~(/\ servers[id].status \in {"stopped", "error"}
                /\ servers[id].updateStage = "none"))
              => /\ Rejected(deleteServer(NewTask(t, "delete", id), t),
                             "state_error")
                 /\ servers' = servers /\ tasks' = tasks]_vars

\* ---------------------------------------------------------------------------
\* Events and the status they announce
\* ---------------------------------------------------------------------------

\* The entries of a step's log that concern server id.
LogOf(l, id) == SelectSeq(l, LAMBDA e : e.id = id)

\* The status values of the entries of one kind, in order.
StatusValues(l, id, kind) ==
    LET es == SelectSeq(l, LAMBDA e : e.id = id /\ e.kind = kind)
    IN  [i \in 1..Len(es) |-> es[i].status]

\* C11: every status assignment the orchestrator performs is followed, before
\* the next assignment to the same server and before the handler is
\* suspended or returns, by exactly one server_status publication for that
\* server: never none, never two.
C11_OneEventPerTransition ==
    \A id \in ServerIds :
        LET l == LogOf(log, id)
        IN  \A i \in 1..Len(l) :
                l[i].kind = "set" =>
                    /\ i + 1 <= Len(l) /\ l[i + 1].kind = "pub"
                    /\ i + 2 <= Len(l) => l[i + 2].kind = "set"

\* C12: every published server_status(s, x) carries the status the Map holds
\* for s at the moment of the publication.
C12_EventMatchesState ==
    \A i \in 1..Len(log) : log[i].kind = "pub" => log[i].auth = log[i].status

\* C13: the server_status values handed to the push channel for a server are,
\* in order, exactly the status values the server takes: no assignment goes
\* unpublished, none is published twice, none out of order.
C13_EventsFollowTransitions ==
    \A id \in ServerIds :
        StatusValues(log, id, "pub") = StatusValues(log, id, "set")

\* C14: a server_status event is published for a server only between its
\* server_update(created) and its server_update(deleted), that is, while the
\* Map holds the server (importServer inserts and publishes created in one
\* turn, deleteServer removes and publishes deleted in one turn).
C14_StatusBetweenCreatedAndDeleted ==
    [][\A id \in ServerIds :
          (\E i \in 1..Len(out') : /\ out'[i].type = "server_status"
                                    /\ out'[i].serverId = id)
              => servers[id].present]_vars

\* C15: the file system carries out a backup of a server's directory, or an
\* update copy into it, only while the server's container is not running.
C15_NoBackupWhileRunning ==
    [][\A t \in TaskIds :
          (/\ tasks[t].pc \in {"stop_backup", "init_backup", "m_backup",
                                "apply_copy"}
           /\ FileSystem(t))
              => container[tasks[t].id] # "running"]_vars

\* ---------------------------------------------------------------------------
\* Backups
\* ---------------------------------------------------------------------------

\* C19: parsing the file name generated from a timestamp t and a type k gives
\* back exactly (t, k), for every type manual, auto, pre-update, pre-restore.
C19_FileNameRoundTrip ==
    parsed # <<>> =>
        parsed = [timestamp |-> toISOString(given.instant), type |-> given.type]

\* The names in dir that parse to a backup of the given type.
OfType(dir, type) ==
    { e.fileName : e \in { b \in BackupEntries(dir) : b.type = type } }

\* A task whose createBackup call has returned to its caller.
Created(t) ==
    /\ tasks[t].pc \in CreatePcs
    /\ tasks[t].call.phase = "done"

Max(a, b) == IF a >= b THEN a ELSE b

\* C16: whenever a server's update stage is initiated or applying, a
\* pre-update backup of that server is on disk: neither a backup deletion nor
\* the retention trim removes it while the stage is active.
C16_PreUpdateBackupKept ==
    \A id \in ServerIds :
        /\ servers[id].present
        /\ servers[id].updateStage \in {"initiated", "applying"}
        => OfType(backupDir[id], "pre-update") # {}

\* C17: when a createBackup call returns, its retention trim has removed
\* only the backups beyond the configured cap, oldest first: of the backups it
\* listed, the newest min(listed, cap) are kept, the backup just created
\* among them.
C17_RetentionKeepsNewest ==
    \A t \in TaskIds :
        Created(t) =>
            /\ Cardinality(tasks[t].call.deleted)
                   = Max(0, tasks[t].call.listed - maxBackupsPerType)
            /\ tasks[t].call.fileName \notin tasks[t].call.deleted

\* C18: retention is applied per backup type: a createBackup of type k
\* removes no backup of another type, and when it returns the server holds at
\* most the cap of each type.
C18_RetentionPerType ==
    \A t \in TaskIds :
        /\ tasks[t].pc \in CreatePcs =>
               \A name \in tasks[t].call.deleted :
                   parseBackupFileName(name).type = BackupTypeAt(tasks[t].pc)
        /\ Created(t) =>
               \A type \in BackupTypes :
                   Cardinality(OfType(backupDir[tasks[t].id], type))
                       <= maxBackupsPerType

\* C20: deleteServer leaves the backups of the server untouched: no step of
\* its handler, and no file-system call it awaits, changes what listBackups
\* returns for the server.
C20_DeletePreservesBackups ==
    [][\A t \in TaskIds :
          /\ tasks[t].op = "delete"
          /\ \/ FileStore(t)
             \/ DockerDaemon(t)
             \/ ResumeRemoveContainer(t)
             \/ ResumeDeleteServer(t)
          => listBackups(backupDir'[tasks[t].id])
                 = listBackups(backupDir[tasks[t].id])]_vars

\* A server that had backups listed has been deleted.
C20_Witness ==
    /\ ret = [op |-> "delete", id |-> "s1", result |-> "ok"]
    /\ ~servers["s1"].present
    /\ sidecar["s1"] = "nodir"
    /\ listBackups(backupDir["s1"]) # {<<>>}

\* ---------------------------------------------------------------------------
\* Restore, subscriptions, reconciliation, the update flow
\* ---------------------------------------------------------------------------

\* C21: a restore request is carried out only for a server that exists, is
\* stopped and has update stage none: in every other state the route rejects
\* it with a state error before it calls the backup engine.
C21_RestoreOnlyWhenStopped ==
    \A t \in TaskIds, id \in ServerIds :
        (/\ tasks[t].op = "idle"
         /\ ~(/\ servers[id].present
              /\ servers[id].status = "stopped"
              /\ servers[id].updateStage = "none"))
            => Rejected(restoreBackupRoute(NewTask(t, "restore", id), t),
                        "state_error")

\* The record the Map holds for a connected client.
ClientOf(cs, c) == cs[CHOOSE i \in 1..Len(cs) : cs[i].id = c]

\* C22: an event for server id is sent to exactly the clients that have id in
\* their subscriptions or are subscribed to all; a send that throws keeps the
\* event from no other matching client and removes no client.
C22_BroadcastToMatching ==
    [][\A id \in Topics, message \in Events :
          Broadcast(id, message) =>
              /\ sent'.tried = { c \in ClientIds :
                                   /\ HasClient(clients, c)
                                   /\ Matches(ClientOf(clients, c), id) }
              /\ sent'.reached = { c \in sent'.tried : sockets[c] = "open" }
              /\ clients' = clients]_vars

\* The first matching client's send threw, the event reached the second, and
\* both are still clients.
C22_Witness ==
    /\ Len(clients) = 2
    /\ sent.message # <<>>
    /\ sent.tried = {clients[1].id, clients[2].id}
    /\ sent.reached = {clients[2].id}
    /\ sockets[clients[1].id] = "broken"

\* C23: subscribe and unsubscribe with a server id add or remove that id
\* only; without one they change the all flag only, and leave the client's
\* subscriptions as they are.
C23_SubscriptionFrame ==
    [][\A c \in ClientIds, serverId \in ServerIdOptions :
          /\ Subscribe(c, serverId) =>
                clients' = [i \in 1..Len(clients) |->
                    IF clients[i].id # c THEN clients[i]
                    ELSE IF serverId # <<>>
                    THEN [clients[i] EXCEPT
                              !.subscriptions = @ \cup {serverId[1]}]
                    ELSE [clients[i] EXCEPT !.subscribedToAll = TRUE]]
          /\ Unsubscribe(c, serverId) =>
                clients' = [i \in 1..Len(clients) |->
                    IF clients[i].id # c THEN clients[i]
                    ELSE IF serverId # <<>>
                    THEN [clients[i] EXCEPT
                              !.subscriptions = @ \ {serverId[1]}]
                    ELSE [clients[i] EXCEPT !.subscribedToAll = FALSE]]]_vars

\* The process at pid runs the program the entry was recorded for (image
\* names do not distinguish case).
SameImage(table, pid, processName) ==
    /\ table[pid] # <<>>
    /\ toLowerCase(table[pid]) = toLowerCase(processName)

\* C24: reconcile re-adopts the persisted entry only if its pid is alive and
\* the image name of the process at that pid is the recorded one; when the
\* pid is held by another program the entry is not adopted and the server is
\* not reported running.
C24_AdoptOnlySameImage ==
    [][ReconcileVerify =>
          LET id == record.serverId
          IN  (managed'[id] # NoPid \/ getProcessStatus(managed', osTable', id))
                  => SameImage(osTable, record.pid, record.processName)]_vars

\* C25: an apply request on a server whose updateStage is not initiated is
\* rejected with a state error; an accepted applyUpdate ends in one of two
\* states: when it returns, the sidecar and the Map hold updateStage none,
\* the status is stopped and server_status(stopped) then
\* server_update(updated) were published; when it throws, the sidecar and
\* the Map hold updateStage initiated, the status is error and an error
\* status was published.
C25_ApplyEndsInOneOfTwo ==
    [][\A id \in ServerIds :
          /\ \A t \in TaskIds :
                (/\ RequestApplyUpdate(t, id)
                 /\ servers[id].present
                 /\ servers[id].updateStage # "initiated")
                    => /\ Rejected(applyUpdate(NewTask(t, "apply", id), t),
                                   "state_error")
                       /\ servers' = servers /\ tasks' = tasks
          /\ ret' = [op |-> "apply", id |-> id, result |-> "ok"]
                => /\ servers'[id].updateStage = "none"
                   /\ sidecar'[id] = "none"
                   /\ servers'[id].status = "stopped"
                   /\ out' = <<StatusMsg(id, "stopped", Undef, "none"),
                               UpdateMsg(id, "updated")>>
          /\ ret' = [op |-> "apply", id |-> id, result |-> "error"]
                => /\ servers'[id].updateStage = "initiated"
                   /\ sidecar'[id] = "initiated"
                   /\ servers'[id].status = "error"
                   /\ \E i \in 1..Len(out') :
                         /\ out'[i].type = "server_status"
                         /\ out'[i].serverId = id
                         /\ out'[i].status = "error"]_vars

\* C26: a cancel request on a server whose updateStage is none is rejected
\* with a state error; when cancelUpdate returns, the sidecar and the Map
\* hold updateStage none, the status is stopped and server_status(stopped)
\* was published; no step of cancelUpdate adds, removes or replaces a file of
\* the server's backup directory.
C26_CancelUpdate ==
    [][\A id \in ServerIds :
          /\ \A t \in TaskIds :
                (/\ RequestCancelUpdate(t, id)
                 /\ servers[id].present
                 /\ servers[id].updateStage = "none")
                    => /\ Rejected(cancelUpdate(NewTask(t, "cancel", id), t),
                                   "state_error")
                       /\ servers' = servers /\ tasks' = tasks
          /\ ret' = [op |-> "cancel", id |-> id, result |-> "ok"]
                => /\ servers'[id].updateStage = "none"
                   /\ sidecar'[id] = "none"
                   /\ servers'[id].status = "stopped"
                   /\ out' = <<StatusMsg(id, "stopped", Undef, "none")>>
          /\ \A t \in TaskIds :
                (/\ \/ RequestCancelUpdate(t, id)
                    \/ /\ tasks[t].op = "cancel" /\ tasks[t].id = id
                       /\ FileSystem(t) \/ ResumeCancelUpdate(t))
                    => backupDir'[id] = backupDir[id]]_vars

\* C27: an initiate request on a server whose status is starting, stopping
\* or error is rejected on entry: no backup is begun, and neither the status
\* nor the updateStage changes.
C27_InitiateOnlyAtRest ==
    [][\A t \in TaskIds, id \in ServerIds :
          (/\ RequestInitiateUpdate(t, id)
           /\ servers[id].present
           /\ servers[id].status \in {"starting", "stopping", "error"})
              => /\ \E r \in {"state_error", "conflict"} :
                       Rejected(initiateUpdate(NewTask(t, "initiate", id), t), r)
                 /\ servers' = servers /\ tasks' = tasks]_vars

\* The createBackup call task t awaited threw inside enforceRetentionPolicy:
\* the archive had been written and listed, and a deleteBackup failed.
RetentionFailed(t) ==
    /\ tasks[t].pc \in CreatePcs
    /\ tasks[t].call.phase = "failed"
    /\ tasks[t].call.listed > 0

\* C28: when retention enforcement fails after the archive has been written
\* (a file to trim was already removed by a concurrent create or delete),
\* the create-backup request still returns successfully and the new archive
\* remains on disk.
C28_RetentionFailureTolerated ==
    [][\A t \in TaskIds :
          (/\ ResumeBackupRoute(t)
           /\ tasks[t].pc = "route_backup"
           /\ RetentionFailed(t))
              => /\ ret' = [op |-> "backup", id |-> tasks[t].id,
                            result |-> "ok"]
                 /\ tasks[t].call.fileName \in backupDir'[tasks[t].id]]_vars

\* C29: after loadServers every server directory that holds a valid sidecar
\* is in the Map, whether or not the daemon answered during startup.
C29_EveryConfiguredServerLoaded ==
    [][ProcessRestart =>
          \A id \in ServerIds :
              sidecar[id] \in Stages => servers'[id].present]_vars

\* C30: the status loadServers gives a server is running when the daemon
\* reports its container running, otherwise updating when the sidecar's
\* updateStage is not none, otherwise stopped; with it the Map holds the
\* sidecar's updateStage.  No server is loaded starting, stopping or error.
C30_InitialStatus ==
    [][ProcessRestart =>
          \A id \in ServerIds :
              servers'[id].present =>
                  /\ servers'[id].status =
                         IF container[id] = "running" THEN "running"
                         ELSE IF sidecar[id] # "none" THEN "updating"
                         ELSE "stopped"
                  /\ servers'[id].updateStage = sidecar[id]
                  /\ servers'[id].status
                         \notin {"starting", "stopping", "error"}]_vars

\* A server is in the state loadServers gives it when the sidecar says that
\* an update was being applied and its container, left from a crash, is not
\* running: updating, with nothing in flight and nothing published.
C30_Witness ==
    \E id \in ServerIds :
        /\ servers[id].present
        /\ servers[id].status = "updating"
        /\ servers[id].updateStage = "applying"
        /\ sidecar[id] = "applying"
        /\ container[id] = "stopped"
        /\ \A t \in TaskIds : tasks[t] = IdleTask
        /\ exitEvents[id] = 0
        /\ ret = NoRet /\ out = <<>> /\ log = <<>>

\* ---------------------------------------------------------------------------
\* The native provider's records, stop and RCON, import, the maintenance
\* schedule, copies, and transitions that overlap
\* ---------------------------------------------------------------------------

\* C31: native-processes.json follows the set of tracked processes: whenever
\* no provider call is in flight, a process whose exit the provider has
\* observed (its 'exit' handler has run) is no longer listed in the file.
C31_FileListsTracked ==
    (\A c \in NativeCallIds : calls[c].op = "idle")
        => \A p \in Pids :
               processes[p].state = "reaped"
                   => persisted.entries[processes[p].id] # p

\* C32: a stopServer call that has tree-killed the process (after a failed
\* RCON shutdown, or because the process outlived the stop timeout) polls
\* for the exit before it returns: it never returns with a kill issued and
\* no poll made since.
C32_PollsAfterKill ==
    [][\A c \in NativeCallIds :
          (/\ calls[c].op = "stop"
           /\ calls'[c].op = "idle"
           /\ calls[c].kill # "none")
              => calls[c].kill = "polled"]_vars

\* C33: every call of sendRconCommand terminates: its promise is resolved or
\* rejected at the latest when the timeout has passed, whatever the peer
\* does (refuses, rejects the password, closes before or after the
\* authentication, or stays silent).
C33_CommandTerminates == <>(rcon.promise # "pending")

\* C34: when the import request gives no ports, the stored list has one
\* entry per default port of the template, in the template's order, and in
\* every entry the host port equals the container port.
C34_HostEqualsContainer ==
    [][(ImportPorts /\ requestPorts = <<>> /\ defaultPorts # <<>>) =>
          /\ Len(ports'[1]) = Len(defaultPorts[1])
          /\ \A i \in 1..Len(ports'[1]) :
                /\ ports'[1][i].container = defaultPorts[1][i].container
                /\ ports'[1][i].protocol = defaultPorts[1][i].protocol
                /\ ports'[1][i].host = ports'[1][i].container]_vars

\* Daylight time is in effect in America/New_York at instant w: from 07:00
\* UTC of the day the clocks go forward to 06:00 UTC of the day they go back.
InDaylightTime(w) ==
    /\ HoursSinceEpoch(w.day, w.hour) >= HoursSinceEpoch(ClockChanges[w.year].spring, 7)
    /\ HoursSinceEpoch(w.day, w.hour) < HoursSinceEpoch(ClockChanges[w.year].fall, 6)

\* C35: on every day, the days of the clock changes included, runMaintenance
\* fires exactly once, at 04:00 Eastern wall-clock time: at 08:00 UTC when
\* daylight time is in effect at that instant, at 09:00 UTC otherwise.
C35_FiresAtFourEastern ==
    [][/\ MaintenanceFires
          => wallClock'.hour = IF InDaylightTime(wallClock') THEN 8 ELSE 9
       /\ Midnight => fired.count = 1]_vars

\* C36: copyDirectory only adds or overwrites: after a copy every file of
\* the source is in the destination with the source's content, and every
\* file that was in the destination and is not in the source is still there,
\* unchanged (also when the copy ended with an error).
C36_CopyAddsOrOverwrites ==
    [][CopyDirectory =>
          /\ copied' = "ok"
                => \A p \in Paths :
                       IsFile(source[p]) => destination'[p] = source[p]
          /\ \A p \in Paths :
                (IsFile(destination[p]) /\ ~IsFile(source[p]))
                    => destination'[p] = destination[p]]_vars

\* A copy has succeeded into a destination that holds a file the source
\* does not have, next to a nested file the source has.
C36_Witness ==
    /\ copied = "ok"
    /\ \E p \in Paths : IsFile(destination[p]) /\ source[p] = "none"
    /\ \E q \in Paths :
          Len(q) = 2 /\ IsFile(source[q]) /\ destination[q] = source[q]

\* C37: an exit notification caused by the backend's own stop of a server's
\* container never moves that server to error: in the runs where no process
\* ends on its own, no delivery of an exit notification assigns error.
C37_OwnStopNeverError ==
    [][\A id \in ServerIds :
          (DeliverExit(id) /\ servers[id].present)
              => (servers'[id].status = "error"
                     => servers[id].status = "error")]_vars

\* No operation or maintenance run is in progress for server id (an exit
\* callback runs to completion within its own turn).
Quiescent(ts, id) == \A t \in TaskIds : ts[t].id # id

\* The last server_status a step has published for id ("none": it has
\* published none).
LastPublished(l, id) ==
    LET published == StatusValues(l, id, "pub")
    IN  IF published = <<>> THEN "none" ELSE published[Len(published)]

\* C38: at every quiescent point the most recently published server_status
\* of a server is its in-memory status: a step that brings a server to rest
\* with another status than it had has published that status last.
C38_PublishedAtRest ==
    [][\A id \in ServerIds :
          (/\ servers[id].present /\ servers'[id].present
           /\ Quiescent(tasks', id)
           /\ servers'[id].status # servers[id].status)
              => LastPublished(log', id) = servers'[id].status]_vars

\* C39: once cancel-update has returned for a server, the server's
\* updateStage is none, also when an apply-update was in flight when the
\* cancel was accepted (checked in the runs where no initiate-update
\* overlaps another handler, so that none follows the cancel's acceptance).
C39_CancelledStaysNone ==
    \A id \in ServerIds :
        (ret = [op |-> "cancel", id |-> id, result |-> "ok"]
            /\ servers[id].present)
                => servers[id].updateStage = "none"

\* C40: after delete-server has returned for a server id (the id was handed
\* out and the Map no longer holds it), the daemon holds no container for
\* the id, and none is created for it afterwards.
C40_NoContainerAfterDelete ==
    \A id \in ServerIds :
        (id \in allocated /\ ~servers[id].present) => container[id] = "none"

====
